---- MODULE Spec2Model ----
(***************************************************************************)
(* The Intcode machine of src/bin/day9.rs (identical in src/bin/day13.rs): *)
(* a growing, zero-filled memory, an instruction pointer, a relative base, *)
(* and a resumable compute loop, together with the host operations peek    *)
(* and poke.                                                               *)
(*                                                                         *)
(* Representation.  mem is the backing Vec<i64>: a sequence whose element  *)
(* i+1 is the cell at address i.  An Addr is a usize; a negative integer a *)
(* in an address position stands for the usize 2^64 + a that the cast      *)
(* `as Addr` produces from a negative i64.                                 *)
(***************************************************************************)
EXTENDS Integers, Sequences, FiniteSets, TLC

VARIABLES
    prog,           \* the program vector handed to IntcodeISS::new
    mem,            \* IntcodeISS.mem
    pc,             \* IntcodeISS.pc
    relative_base,  \* IntcodeISS.relative_base
    input,          \* compute: what is left of the input iterator
    output,         \* compute: the local output vector
    status,         \* "Idle" (between calls), "Running" (inside compute), "Aborted" (panicked)
    reason,         \* StopReason of the last completed compute call, "None" before the first
    peer,           \* a second IntcodeISS made from the same program vector
    amp_chain,      \* day7.rs: the machines of the amplifier chain
    host,           \* day7.rs, day13.rs: the locals of the host function that is running
    hist            \* history of the run, read only by the properties

vars == <<prog, mem, pc, relative_base, input, output, status, reason, peer, amp_chain, host,
          hist>>

(***************************************************************************)
(* Bounds of the model.                                                    *)
(***************************************************************************)
MaxSteps == 12      \* loop iterations of one compute call
MaxOps == 3         \* host operations (compute, peek, poke) on one machine
MaxRun == 85        \* loop iterations of the one call of a test

PAGE_SIZE == 1024

(***************************************************************************)
(* i64 division and remainder as Rust computes them: truncated toward 0.   *)
(***************************************************************************)
DivT(a, b) == IF a >= 0 THEN a \div b ELSE -((-a) \div b)

RemT(a, b) == a - b * DivT(a, b)

Zeros(n) == [i \in 1..n |-> 0]

\* Mutant: the new cells are not zeroed.
VecResize_Fill(m, new_size) ==
    IF new_size <= Len(m) THEN SubSeq(m, 1, new_size)
    ELSE m \o [i \in 1..(new_size - Len(m)) |-> 1]

(***************************************************************************)
(* Vec::resize(new_size, 0): truncates when shorter, zero-extends when     *)
(* longer.                                                                 *)
(***************************************************************************)
VecResize(m, new_size) ==
    IF new_size <= Len(m) THEN SubSeq(m, 1, new_size)
    ELSE m \o Zeros(new_size - Len(m))

\* Mutant: the memory is allocated anew, its contents dropped.
ResizeMem_Fresh(m, addr) ==
    Zeros(((addr + PAGE_SIZE) \div PAGE_SIZE) * PAGE_SIZE)

\* Mutant: the memory grows to the touched address and no further.
ResizeMem_Exact(m, addr) == VecResize(m, addr + 1)

ResizeMem(m, addr) ==
    LET new_size == ((addr + PAGE_SIZE) \div PAGE_SIZE) * PAGE_SIZE
    IN  VecResize(m, new_size)

(***************************************************************************)
(* With(e, F) is F(e) with e evaluated once: a local `let x = e`.          *)
(***************************************************************************)
With(e, F(_)) == CHOOSE y \in {F(x) : x \in {e}} : TRUE

(***************************************************************************)
(* peek: the memory it leaves behind, and the value it returns.            *)
(***************************************************************************)
\* Mutant: peek resizes without asking whether addr is inside the memory.
PeekMem_Always(m, addr) == ResizeMem(m, addr)

PeekMem(m, addr) == IF addr < Len(m) THEN m ELSE ResizeMem(m, addr)

PeekVal(m, addr) ==
    IF addr < Len(m) THEN m[addr + 1] ELSE ResizeMem(m, addr)[addr + 1]

\* Mutant: beyond the memory, poke grows it and forgets the write.
PokeMem_GrowOnly(m, addr, val) ==
    IF addr < Len(m) THEN [m EXCEPT ![addr + 1] = val]
    ELSE ResizeMem(m, addr)

(***************************************************************************)
(* poke: the memory it leaves behind.                                      *)
(***************************************************************************)
PokeMem(m, addr, val) ==
    IF addr < Len(m) THEN [m EXCEPT ![addr + 1] = val]
    ELSE [ResizeMem(m, addr) EXCEPT ![addr + 1] = val]

(***************************************************************************)
(* A Value is an i64.  A value of magnitude below 2^30 is an integer; a    *)
(* larger one is the record [neg, mag] of its sign and its magnitude in    *)
(* limbs of 15 bits, least significant first, the last limb not 0.         *)
(***************************************************************************)
Base == 2 ^ 15

\* The limbs of the natural number n.
RECURSIVE ToLimbs(_)
ToLimbs(n) == IF n = 0 THEN <<>> ELSE <<n % Base>> \o ToLimbs(n \div Base)

\* x without its leading (last) zero limbs.
RECURSIVE Strip(_)
Strip(x) ==
    IF x # <<>> /\ x[Len(x)] = 0 THEN Strip(SubSeq(x, 1, Len(x) - 1)) ELSE x

\* x * d + carry, for one limb d.
RECURSIVE MulSmall(_, _, _)
MulSmall(x, d, carry) ==
    IF x = <<>> THEN ToLimbs(carry)
    ELSE <<(Head(x) * d + carry) % Base>>
            \o MulSmall(Tail(x), d, (Head(x) * d + carry) \div Base)

\* x + y + carry.
RECURSIVE AddLimbs(_, _, _)
AddLimbs(x, y, carry) ==
    IF x = <<>> /\ y = <<>> THEN ToLimbs(carry)
    ELSE LET a == IF x = <<>> THEN 0 ELSE Head(x)
             b == IF y = <<>> THEN 0 ELSE Head(y)
         IN  <<(a + b + carry) % Base>>
                \o AddLimbs(IF x = <<>> THEN x ELSE Tail(x),
                            IF y = <<>> THEN y ELSE Tail(y),
                            (a + b + carry) \div Base)

\* x - y - borrow, for x >= y + borrow, over the limbs of x.
RECURSIVE SubLimbs(_, _, _)
SubLimbs(x, y, borrow) ==
    IF x = <<>> THEN <<>>
    ELSE LET b == IF y = <<>> THEN 0 ELSE Head(y)
             t == Head(x) - b - borrow
         IN  <<t % Base>>
                \o SubLimbs(Tail(x), IF y = <<>> THEN y ELSE Tail(y), IF t < 0 THEN 1 ELSE 0)

\* x * y.
RECURSIVE MulLimbs(_, _)
MulLimbs(x, y) ==
    IF y = <<>> THEN <<>>
    ELSE AddLimbs(MulSmall(x, Head(y), 0), <<0>> \o MulLimbs(x, Tail(y)), 0)

\* 2^bits, and x modulo 2^bits.
Pow2(bits) == [k \in 1..(bits \div 15 + 1) |-> IF k <= bits \div 15 THEN 0 ELSE 2 ^ (bits % 15)]

LowBits(x, bits) ==
    Strip([k \in 1..(IF Len(x) <= bits \div 15 THEN Len(x) ELSE bits \div 15 + 1) |->
              IF k <= bits \div 15 THEN x[k] ELSE x[k] % (2 ^ (bits % 15))])

\* The bit of x that weighs 2^n.
BitOf(x, n) == IF Len(x) <= n \div 15 THEN 0 ELSE (x[n \div 15 + 1] \div (2 ^ (n % 15))) % 2

\* The Value of sign neg and magnitude x.
ValueOfLimbs(neg, x) ==
    IF Len(x) <= 2
    THEN (IF neg THEN -1 ELSE 1)
            * ((IF Len(x) >= 1 THEN x[1] ELSE 0) + (IF Len(x) = 2 THEN x[2] * Base ELSE 0))
    ELSE [neg |-> neg, mag |-> x]

\* The two's complement number of `bits` bits whose bit pattern is that of
\* (neg: minus) x: what wrapping arithmetic of that width makes of it.
Wrapped(neg, x, bits) ==
    LET low == LowBits(x, bits)
        u   == IF neg /\ low # <<>> THEN Strip(SubLimbs(Pow2(bits), low, 0)) ELSE low
    IN  IF BitOf(u, bits - 1) = 1
        THEN ValueOfLimbs(TRUE, Strip(SubLimbs(Pow2(bits), u, 0)))
        ELSE ValueOfLimbs(FALSE, u)

\* a * b in a signed type of `bits` bits, for a and b below 2^30 in magnitude.  The
\* product that fits is exact.  One that does not fit is wrapped, as a build
\* without overflow checks has it.
MulBits(a, b, bits) ==
    Wrapped((a < 0) # (b < 0),
            MulLimbs(ToLimbs(IF a < 0 THEN -a ELSE a), ToLimbs(IF b < 0 THEN -b ELSE b)),
            bits)

\* Mutant: the product keeps the low 32 bits of its magnitude only.
MulValue_I32(a, b) ==
    [neg |-> (a < 0) # (b < 0),
     mag |-> LowBits(MulLimbs(ToLimbs(IF a < 0 THEN -a ELSE a),
                              ToLimbs(IF b < 0 THEN -b ELSE b)), 32)]

\* op1 * op2 on Value = i64.
MulValue(a, b) == MulBits(a, b, 64)

\* x divided by the limb d: the quotient and the remainder.
RECURSIVE DivSmall(_, _)
DivSmall(x, d) ==
    IF x = <<>> THEN [quot |-> <<>>, rem |-> 0]
    ELSE LET hi  == DivSmall(Tail(x), d)
             cur == hi.rem * Base + Head(x)
         IN  [quot |-> <<cur \div d>> \o hi.quot, rem |-> cur % d]

\* The magnitude x in decimal, four digits to a group, the leading group first.
RECURSIVE Decimal(_)
Decimal(x) ==
    IF Strip(x) = <<>> THEN <<>>
    ELSE LET qr == DivSmall(Strip(x), 10000)
         IN  Append(Decimal(qr.quot), qr.rem)

\* The magnitude written in decimal as the groups g.
RECURSIVE OfDecimal(_)
OfDecimal(g) ==
    IF g = <<>> THEN <<>>
    ELSE Strip(MulSmall(OfDecimal(SubSeq(g, 1, Len(g) - 1)), 10000, g[Len(g)]))

(***************************************************************************)
(* Results of operand resolution.  fault = "none" when the access goes     *)
(* through; "mode" when the addressing mode hits unimplemented!(); "addr"  *)
(* when the address is a wrapped negative number, which no Vec can hold,   *)
(* so that resize_mem or the index that follows it panics (faddr tells     *)
(* which address).                                                         *)
(***************************************************************************)
Ok(m, v) == [fault |-> "none", faddr |-> 0, mem |-> m, val |-> v]

Bad(kind, m, a) == [fault |-> kind, faddr |-> a, mem |-> m, val |-> 0]

\* self.peek(addr) on memory m: the value read and the memory left behind.
PeekR(m, addr) ==
    IF addr < 0 THEN Bad("addr", m, addr)
    ELSE With(PeekMem(m, addr), LAMBDA n : Ok(n, n[addr + 1]))

\* Mutant: a write target in immediate mode is refused, as a value in an unknown
\* mode is.
addr_fetch_Strict(m, rb, am, val) ==
    CASE am = 0 -> Ok(m, val)
      [] am = 2 -> Ok(m, rb + val)
      [] OTHER  -> Bad("mode", m, 0)

addr_fetch(m, rb, am, val) ==
    CASE am = 0 -> Ok(m, val)
      [] am = 1 -> Ok(m, val)
      [] am = 2 -> Ok(m, rb + val)
      [] OTHER  -> Bad("mode", m, 0)

\* Mutant: relative mode reads at the raw parameter, without the relative base.
fetch_NoBase(m, rb, am, val) ==
    CASE am = 0 -> PeekR(m, val)
      [] am = 1 -> Ok(m, val)
      [] am = 2 -> PeekR(m, val)
      [] OTHER  -> Bad("mode", m, 0)

fetch(m, rb, am, val) ==
    CASE am = 0 -> PeekR(m, val)
      [] am = 1 -> Ok(m, val)
      [] am = 2 -> PeekR(m, rb + val)
      [] OTHER  -> Bad("mode", m, 0)

(***************************************************************************)
(* A decoded Instruction, or the fault that stopped the decoding.          *)
(***************************************************************************)
Instr(op, m, d, a, b) ==
    [fault |-> "none", faddr |-> 0, mem |-> m, op |-> op, d |-> d, a |-> a, b |-> b]

NoInstr(kind, m, fa) ==
    [fault |-> kind, faddr |-> fa, mem |-> m, op |-> "None", d |-> 0, a |-> 0, b |-> 0]

\* Two value operands: fetch(m1, r1), then fetch(m2, r2).
FetchAB(op, m, rb, m1, m2, r1, r2, d) ==
    With(fetch(m, rb, m1, r1), LAMBDA fa :
        IF fa.fault # "none" THEN NoInstr(fa.fault, fa.mem, fa.faddr)
        ELSE With(fetch(fa.mem, rb, m2, r2), LAMBDA fb :
            IF fb.fault # "none" THEN NoInstr(fb.fault, fb.mem, fb.faddr)
            ELSE Instr(op, fb.mem, d, fa.val, fb.val)))

\* Add, Mul, Lt, Eq: addr_fetch(md, rd), fetch(m1, r1), fetch(m2, r2), in this order.
DecodeDAB(op, m, rb, md, m1, m2, r1, r2, rd) ==
    With(addr_fetch(m, rb, md, rd), LAMBDA fd :
        IF fd.fault # "none" THEN NoInstr(fd.fault, m, fd.faddr)
        ELSE FetchAB(op, m, rb, m1, m2, r1, r2, fd.val))

\* Jpt, Jpf: fetch(m1, r1), fetch(m2, r2) as Addr.
DecodeAB(op, m, rb, m1, m2, r1, r2) ==
    With(FetchAB(op, m, rb, m1, m2, r1, r2, 0), LAMBDA i :
        IF i.fault # "none" THEN i ELSE Instr(op, i.mem, i.b, i.a, 0))

\* Put, Rbo: fetch(m1, r1).
DecodeA(op, m, rb, m1, r1) ==
    With(fetch(m, rb, m1, r1), LAMBDA fa :
        IF fa.fault # "none" THEN NoInstr(fa.fault, fa.mem, fa.faddr)
        ELSE Instr(op, fa.mem, 0, fa.val, 0))

\* Get: addr_fetch(m1, r1).
DecodeD(op, m, rb, m1, r1) ==
    With(addr_fetch(m, rb, m1, r1), LAMBDA fd :
        IF fd.fault # "none" THEN NoInstr(fd.fault, m, fd.faddr)
        ELSE Instr(op, m, fd.val, 0, 0))

ModeD(word) == RemT(DivT(word, 10000), 10)

\* Mutant: the second mode is read from the hundreds digit.
Mode2_Hundreds(word) == RemT(DivT(word, 100), 10)

Mode2(word) == RemT(DivT(word, 1000), 10)

Mode1(word) == RemT(DivT(word, 100), 10)

\* Mutant: the opcode is the last digit alone.
Opcode_OneDigit(word) == RemT(word, 10)

Opcode(word) == RemT(word, 100)

\* Mutant: a word with an unknown opcode is taken for a halt.
Operands_UnknownHalts(m, rb, word, r1, r2, rd) ==
    LET md     == ModeD(word)
        m2     == Mode2(word)
        m1     == Mode1(word)
        opcode == Opcode(word)
    IN  CASE opcode = 1  -> DecodeDAB("Add", m, rb, md, m1, m2, r1, r2, rd)
          [] opcode = 2  -> DecodeDAB("Mul", m, rb, md, m1, m2, r1, r2, rd)
          [] opcode = 3  -> DecodeD("Get", m, rb, m1, r1)
          [] opcode = 4  -> DecodeA("Put", m, rb, m1, r1)
          [] opcode = 5  -> DecodeAB("Jpt", m, rb, m1, m2, r1, r2)
          [] opcode = 6  -> DecodeAB("Jpf", m, rb, m1, m2, r1, r2)
          [] opcode = 7  -> DecodeDAB("Lt", m, rb, md, m1, m2, r1, r2, rd)
          [] opcode = 8  -> DecodeDAB("Eq", m, rb, md, m1, m2, r1, r2, rd)
          [] opcode = 9  -> DecodeA("Rbo", m, rb, m1, r1)
          [] OTHER       -> Instr("Halt", m, 0, 0, 0)

\* The match on the opcode, on the memory m left by the four eager reads.
Operands(m, rb, word, r1, r2, rd) ==
    LET md     == ModeD(word)
        m2     == Mode2(word)
        m1     == Mode1(word)
        opcode == Opcode(word)
    IN  CASE opcode = 1  -> DecodeDAB("Add", m, rb, md, m1, m2, r1, r2, rd)
          [] opcode = 2  -> DecodeDAB("Mul", m, rb, md, m1, m2, r1, r2, rd)
          [] opcode = 3  -> DecodeD("Get", m, rb, m1, r1)
          [] opcode = 4  -> DecodeA("Put", m, rb, m1, r1)
          [] opcode = 5  -> DecodeAB("Jpt", m, rb, m1, m2, r1, r2)
          [] opcode = 6  -> DecodeAB("Jpf", m, rb, m1, m2, r1, r2)
          [] opcode = 7  -> DecodeDAB("Lt", m, rb, md, m1, m2, r1, r2, rd)
          [] opcode = 8  -> DecodeDAB("Eq", m, rb, md, m1, m2, r1, r2, rd)
          [] opcode = 9  -> DecodeA("Rbo", m, rb, m1, r1)
          [] opcode = 99 -> Instr("Halt", m, 0, 0, 0)
          [] OTHER       -> NoInstr("opcode", m, 0)

(***************************************************************************)
(* decode(self.pc): the word at p is split into opcode and modes, the      *)
(* three cells after p are read eagerly (each read may grow the memory),   *)
(* then the operands the opcode uses are resolved.                         *)
(***************************************************************************)
decode(m, p, rb) ==
    IF p < 0 THEN NoInstr("addr", m, p)
    ELSE With(PeekR(m, p), LAMBDA w :
         With(PeekR(w.mem, p + 1), LAMBDA x1 :
         With(PeekR(x1.mem, p + 2), LAMBDA x2 :
         With(PeekR(x2.mem, p + 3), LAMBDA x3 :
             Operands(x3.mem, rb, w.val, x1.val, x2.val, x3.val)))))

(***************************************************************************)
(* One iteration of the loop of compute, on the call state                 *)
(* c = [mem, pc, rb, input, output].  ctl tells how the iteration ends:    *)
(* "Step" (the loop goes on), "NeedInput" / "ProgramHalt" (break with that *)
(* StopReason) or "Panic".                                                 *)
(***************************************************************************)
After(i, m, p, rb, inp, out, ctl, fa) ==
    [mem |-> m, pc |-> p, rb |-> rb, input |-> inp, output |-> out,
     ctl |-> ctl, faddr |-> fa, instr |-> [op |-> i.op, d |-> i.d, a |-> i.a, b |-> i.b]]

\* Mutant: the value is stored in the cell after d, too.
Store_AlsoNext(c, i, v, len, inp) ==
    IF i.d < 0 THEN After(i, i.mem, c.pc, c.rb, inp, c.output, "Panic", i.d)
    ELSE After(i, PokeMem(PokeMem(i.mem, i.d, v), i.d + 1, v), c.pc + len, c.rb, inp,
               c.output, "Step", 0)

\* self.poke(d, v); IssOp::Step(len)
Store(c, i, v, len, inp) ==
    IF i.d < 0 THEN After(i, i.mem, c.pc, c.rb, inp, c.output, "Panic", i.d)
    ELSE After(i, PokeMem(i.mem, i.d, v), c.pc + len, c.rb, inp, c.output, "Step", 0)

\* Mutant: the two results of a comparison are swapped.
Bool_Swapped(b) == IF b THEN 0 ELSE 1

Bool(b) == IF b THEN 1 ELSE 0

\* Mutant: an Input instruction without input is skipped, not retried.
ExecGet_NoRetry(c, i) ==
    IF c.input # <<>> THEN Store(c, i, Head(c.input), 2, Tail(c.input))
    ELSE After(i, i.mem, c.pc + 2, c.rb, c.input, c.output, "NeedInput", 0)

\* Mutant: NeedInput is reported while one value is still unread.
ExecGet_Early(c, i) ==
    IF Len(c.input) > 1 THEN Store(c, i, Head(c.input), 2, Tail(c.input))
    ELSE After(i, i.mem, c.pc, c.rb, c.input, c.output, "NeedInput", 0)

\* Mutant: the input is taken from its end.
ExecGet_Lifo(c, i) ==
    IF c.input # <<>>
    THEN Store(c, i, c.input[Len(c.input)], 2, SubSeq(c.input, 1, Len(c.input) - 1))
    ELSE After(i, i.mem, c.pc, c.rb, c.input, c.output, "NeedInput", 0)

ExecGet(c, i) ==
    IF c.input # <<>> THEN Store(c, i, Head(c.input), 2, Tail(c.input))
    ELSE After(i, i.mem, c.pc, c.rb, c.input, c.output, "NeedInput", 0)

ExecPut(c, i) ==
    After(i, i.mem, c.pc + 2, c.rb, c.input, Append(c.output, i.a), "Step", 0)

\* Mutant: a jump taken moves pc by its operand, as Rbo moves the relative base.
ExecJump_Relative(c, i, taken) ==
    After(i, i.mem, IF taken THEN c.pc + i.d ELSE c.pc + 3, c.rb, c.input, c.output, "Step", 0)

ExecJump(c, i, taken) ==
    After(i, i.mem, IF taken THEN i.d ELSE c.pc + 3, c.rb, c.input, c.output, "Step", 0)

\* Mutant: the operand is put out as well.
ExecRbo_Echo(c, i) ==
    After(i, i.mem, c.pc + 2, c.rb + i.a, c.input, Append(c.output, i.a), "Step", 0)

\* Mutant: the relative base is set to the operand, not moved by it.
ExecRbo_Set(c, i) ==
    After(i, i.mem, c.pc + 2, i.a, c.input, c.output, "Step", 0)

ExecRbo(c, i) ==
    After(i, i.mem, c.pc + 2, c.rb + i.a, c.input, c.output, "Step", 0)

\* Mutant: the halt instruction is stepped over before the loop breaks.
ExecHalt_Advance(c, i) ==
    After(i, i.mem, c.pc + 1, c.rb, c.input, c.output, "ProgramHalt", 0)

ExecHalt(c, i) ==
    After(i, i.mem, c.pc, c.rb, c.input, c.output, "ProgramHalt", 0)

\* Mutant: the Mul arm is a copy of the Add arm.
Execute_MulAdds(c, i) ==
    IF i.fault # "none"
    THEN After(i, i.mem, c.pc, c.rb, c.input, c.output, "Panic", i.faddr)
    ELSE CASE i.op = "Add"  -> Store(c, i, i.a + i.b, 4, c.input)
           [] i.op = "Mul"  -> Store(c, i, i.a + i.b, 4, c.input)
           [] i.op = "Get"  -> ExecGet(c, i)
           [] i.op = "Put"  -> ExecPut(c, i)
           [] i.op = "Jpt"  -> ExecJump(c, i, i.a # 0)
           [] i.op = "Jpf"  -> ExecJump(c, i, i.a = 0)
           [] i.op = "Lt"   -> Store(c, i, Bool(i.a < i.b), 4, c.input)
           [] i.op = "Eq"   -> Store(c, i, Bool(i.a = i.b), 4, c.input)
           [] i.op = "Rbo"  -> ExecRbo(c, i)
           [] i.op = "Halt" -> ExecHalt(c, i)

Execute(c, i) ==
    IF i.fault # "none"
    THEN After(i, i.mem, c.pc, c.rb, c.input, c.output, "Panic", i.faddr)
    ELSE CASE i.op = "Add"  -> Store(c, i, i.a + i.b, 4, c.input)
           [] i.op = "Mul"  -> Store(c, i, MulValue(i.a, i.b), 4, c.input)
           [] i.op = "Get"  -> ExecGet(c, i)
           [] i.op = "Put"  -> ExecPut(c, i)
           [] i.op = "Jpt"  -> ExecJump(c, i, i.a # 0)
           [] i.op = "Jpf"  -> ExecJump(c, i, i.a = 0)
           [] i.op = "Lt"   -> Store(c, i, Bool(i.a < i.b), 4, c.input)
           [] i.op = "Eq"   -> Store(c, i, Bool(i.a = i.b), 4, c.input)
           [] i.op = "Rbo"  -> ExecRbo(c, i)
           [] i.op = "Halt" -> ExecHalt(c, i)

ExecStep(c) == With(decode(c.mem, c.pc, c.rb), LAMBDA i : Execute(c, i))

(***************************************************************************)
(* The programs the model loads: the fixtures of the tests of day9.rs and  *)
(* day7.rs, and small programs that suspend, grow the memory or fail.      *)
(***************************************************************************)
HaltOnly == {<<99>>, <<1099>>, <<99, 4, 0, 3>>}

Suspending ==
    { <<3, 0, 4, 0, 3, 1, 4, 1, 99>>,
      <<104, 7, 3, 9, 204, 9, 1105, 1, 2>>,
      <<3, 9, 8, 9, 10, 9, 4, 9, 99, -1, 8>>,
      <<3, 3, 1105, -1, 9, 1101, 0, 0, 12, 4, 12, 99, 1>>,
      <<3, 12, 6, 12, 15, 1, 13, 14, 13, 4, 13, 99, -1, 0, 1, 9>>,
      <<1002, 4, 3, 4, 33>> }

Growing ==
    { <<109, 1030, 203, -6, 204, -6, 1001, 1024, 1, 2047, 99>>,
      <<1101, 5, 6, 1023, 1, 1023, 1024, 1024, 4, 1024, 99>> }

Failing ==
    { <<4, 0, 55>>,
      <<1, -1, 0, 0, 99>>,
      <<1105, 1, -5>>,
      <<104, 1, 301, 0, 0, 0>>,
      <<3, -2000, 99>> }

Programs == HaltOnly \cup Suspending \cup Growing \cup Failing

Inputs == {<<>>, <<8>>, <<0, 8>>}

HostAddrs == {0, 20, 1024}

HostVals == {99, 5}

(***************************************************************************)
(* IntcodeISS::new                                                         *)
(***************************************************************************)
\* The fields of a machine made from the program vector p.
New(p) == [made |-> TRUE, mem |-> p, pc |-> 0, rb |-> 0]

\* No second machine yet.
NoPeer == [made |-> FALSE, mem |-> <<>>, pc |-> 0, rb |-> 0]

\* No host function of day7.rs or day13.rs is running.
NoHost == [at |-> "none"]

\* let mut iss = IntcodeISS::new(&p), before anything is done with it.
Load(p) ==
    /\ prog = p
    /\ mem = New(prog).mem
    /\ pc = New(prog).pc
    /\ relative_base = New(prog).rb
    /\ input = <<>>
    /\ output = <<>>
    /\ status = "Idle"
    /\ reason = "None"
    /\ peer = NoPeer
    /\ amp_chain = <<>>
    /\ host = NoHost
    /\ hist = [written |-> 0..(Len(prog) - 1),
               last    |-> [kind |-> "new", addr |-> 0, val |-> 0],
               trace   |-> <<>>,
               given   |-> <<>>,
               calls   |-> <<>>,
               pokes   |-> 0,
               ops     |-> 0,
               dirty   |-> FALSE]

Init == \E p \in Programs : Load(p)

Cur == [mem |-> mem, pc |-> pc, rb |-> relative_base, input |-> input, output |-> output]

\* Mutant: every call starts the program over.
Call_Restart(inp) ==
    /\ status = "Idle"
    /\ hist.ops < MaxOps
    /\ input' = inp
    /\ output' = <<>>
    /\ pc' = 0
    /\ status' = "Running"
    /\ hist' = [hist EXCEPT !.last = [kind |-> "call", addr |-> 0, val |-> 0],
                            !.trace = <<>>,
                            !.given = inp,
                            !.ops = @ + 1]
    /\ UNCHANGED <<prog, peer, amp_chain, host, mem, relative_base, reason>>

\* Mutant: the output vector outlives the call.
Call_KeepOutput(inp) ==
    /\ status = "Idle"
    /\ hist.ops < MaxOps
    /\ input' = inp
    /\ status' = "Running"
    /\ hist' = [hist EXCEPT !.last = [kind |-> "call", addr |-> 0, val |-> 0],
                            !.trace = <<>>,
                            !.given = inp,
                            !.ops = @ + 1]
    /\ UNCHANGED <<prog, peer, amp_chain, host, mem, pc, relative_base, output, reason>>

(***************************************************************************)
(* compute, entry: the input iterator is bound, the output vector is new.  *)
(***************************************************************************)
Call(inp) ==
    /\ status = "Idle"
    /\ hist.ops < MaxOps
    /\ input' = inp
    /\ output' = <<>>
    /\ status' = "Running"
    /\ hist' = [hist EXCEPT !.last = [kind |-> "call", addr |-> 0, val |-> 0],
                            !.trace = <<>>,
                            !.given = inp,
                            !.ops = @ + 1]
    /\ UNCHANGED <<prog, peer, amp_chain, host, mem, pc, relative_base, reason>>

\* The addresses an iteration has written.
Wrote(r) ==
    IF r.ctl = "Step" /\ r.instr.op \in {"Add", "Mul", "Get", "Lt", "Eq"}
    THEN {r.instr.d} ELSE {}

(***************************************************************************)
(* compute, one iteration of the loop that ends in IssOp::Step or          *)
(* IssOp::Jump.                                                            *)
(***************************************************************************)
LoopStepWithin(n) ==
    /\ status = "Running"
    /\ Len(hist.trace) < n
    /\ \E r \in {ExecStep(Cur)} :
           /\ r.ctl = "Step"
           /\ mem' = r.mem
           /\ pc' = r.pc
           /\ relative_base' = r.rb
           /\ input' = r.input
           /\ output' = r.output
           /\ hist' = [hist EXCEPT !.last = [kind |-> "step", addr |-> 0, val |-> 0],
                                   !.trace = Append(@, r.instr),
                                   !.written = @ \cup Wrote(r)]
    /\ UNCHANGED <<prog, peer, amp_chain, host, status, reason>>

(***************************************************************************)
(* compute, the iteration that breaks out of the loop: compute returns     *)
(* (reason, output).                                                       *)
(***************************************************************************)
LoopBreakWithin(n) ==
    /\ status = "Running"
    /\ Len(hist.trace) < n
    /\ \E r \in {ExecStep(Cur)} :
           /\ r.ctl \in {"NeedInput", "ProgramHalt"}
           /\ mem' = r.mem
           /\ pc' = r.pc
           /\ relative_base' = r.rb
           /\ input' = r.input
           /\ output' = r.output
           /\ status' = "Idle"
           /\ reason' = r.ctl
           /\ hist' = [hist EXCEPT !.last = [kind |-> "return", addr |-> 0, val |-> 0],
                                   !.trace = IF r.ctl = "ProgramHalt"
                                             THEN Append(@, r.instr) ELSE @,
                                   !.calls = Append(@, [inp |-> hist.given, out |-> r.output,
                                                        reason |-> r.ctl]),
                                   !.dirty = FALSE]
    /\ UNCHANGED <<prog, peer, amp_chain, host>>

(***************************************************************************)
(* compute, the iteration that panics.  A wrapped address a in -1024..-1   *)
(* makes addr + PAGE_SIZE overflow: with overflow checks the addition      *)
(* panics, without them it wraps, resize_mem truncates the memory and the  *)
(* index that follows panics.  Both builds are outcomes.                   *)
(***************************************************************************)
PanicMems(m, kind, a) ==
    IF kind = "Panic" /\ a < 0 /\ a + PAGE_SIZE >= 0 THEN {m, ResizeMem(m, a)} ELSE {m}

LoopPanicWithin(n) ==
    /\ status = "Running"
    /\ Len(hist.trace) < n
    /\ \E r \in {ExecStep(Cur)} :
           /\ r.ctl = "Panic"
           /\ mem' \in PanicMems(r.mem, r.ctl, r.faddr)
           /\ pc' = r.pc
           /\ relative_base' = r.rb
           /\ input' = r.input
           /\ output' = r.output
           /\ status' = "Aborted"
           /\ hist' = [hist EXCEPT !.last = [kind |-> "panic", addr |-> r.faddr, val |-> 0]]
    /\ UNCHANGED <<prog, peer, amp_chain, host, reason>>

\* The loop of compute, followed for at most MaxSteps iterations of a call.
LoopStep == LoopStepWithin(MaxSteps)

LoopBreak == LoopBreakWithin(MaxSteps)

LoopPanic == LoopPanicWithin(MaxSteps)

(***************************************************************************)
(* The host reads a cell.                                                  *)
(***************************************************************************)
HostPeek(addr) ==
    /\ status = "Idle"
    /\ hist.ops < MaxOps
    /\ mem' = PeekMem(mem, addr)
    /\ hist' = [hist EXCEPT !.last = [kind |-> "peek", addr |-> addr, val |-> PeekVal(mem, addr)],
                            !.ops = @ + 1]
    /\ UNCHANGED <<prog, peer, amp_chain, host, pc, relative_base, input, output, status, reason>>

(***************************************************************************)
(* The host writes a cell.                                                 *)
(***************************************************************************)
HostPoke(addr, val) ==
    /\ status = "Idle"
    /\ hist.ops < MaxOps
    /\ mem' = PokeMem(mem, addr, val)
    /\ hist' = [hist EXCEPT !.last = [kind |-> "poke", addr |-> addr, val |-> val],
                            !.pokes = @ + 1,
                            !.ops = @ + 1,
                            !.written = @ \cup {addr},
                            !.dirty = TRUE]
    /\ UNCHANGED <<prog, peer, amp_chain, host, pc, relative_base, input, output, status, reason>>

Next ==
    \/ \E inp \in Inputs : Call(inp)
    \/ LoopStep
    \/ LoopBreak
    \/ LoopPanic
    \/ \E addr \in HostAddrs : HostPeek(addr)
    \/ \E addr \in HostAddrs, val \in HostVals : HostPoke(addr, val)

Spec == Init /\ [][Next]_vars

(***************************************************************************)
(* compute as a function: the loop run to its break (or panic) on a        *)
(* machine [mem, pc, rb] with the input inp.  fuel bounds the iterations;  *)
(* a run that needs more ends with ctl = "Step".                           *)
(***************************************************************************)
RECURSIVE Loop(_, _)
Loop(c, fuel) ==
    With(ExecStep(c), LAMBDA r :
        IF r.ctl = "Step" /\ fuel > 1
        THEN Loop([mem |-> r.mem, pc |-> r.pc, rb |-> r.rb,
                   input |-> r.input, output |-> r.output], fuel - 1)
        ELSE r)

compute(m, p, rb, inp, fuel) ==
    Loop([mem |-> m, pc |-> p, rb |-> rb, input |-> inp, output |-> <<>>], fuel)

(***************************************************************************)
(* Two machines of one program, as the amplifier chain of day7.rs makes    *)
(* them: IntcodeISS::new clones the program vector (mem.to_owned()), and   *)
(* the host pokes and runs the second machine as it does the first.        *)
(***************************************************************************)
PeerNew ==
    /\ status = "Idle"
    /\ hist.ops < MaxOps
    /\ ~peer.made
    /\ peer' = New(prog)
    /\ hist' = [hist EXCEPT !.last = [kind |-> "peer new", addr |-> 0, val |-> 0],
                            !.ops = @ + 1]
    /\ UNCHANGED <<prog, amp_chain, host, mem, pc, relative_base, input, output, status, reason>>

\* Mutant: the two machines write the same cells.
PeerPoke_Shared(addr, val) ==
    /\ status = "Idle"
    /\ hist.ops < MaxOps
    /\ peer.made
    /\ peer' = [peer EXCEPT !.mem = PokeMem(@, addr, val)]
    /\ mem' = PokeMem(mem, addr, val)
    /\ hist' = [hist EXCEPT !.last = [kind |-> "peer poke", addr |-> addr, val |-> val],
                            !.ops = @ + 1]
    /\ UNCHANGED <<prog, amp_chain, host, pc, relative_base, input, output, status, reason>>

PeerPoke(addr, val) ==
    /\ status = "Idle"
    /\ hist.ops < MaxOps
    /\ peer.made
    /\ peer' = [peer EXCEPT !.mem = PokeMem(@, addr, val)]
    /\ hist' = [hist EXCEPT !.last = [kind |-> "peer poke", addr |-> addr, val |-> val],
                            !.ops = @ + 1]
    /\ UNCHANGED <<prog, amp_chain, host, mem, pc, relative_base, input, output, status, reason>>

\* One whole compute call on the second machine; a panic in it ends the process.
PeerCompute(inp) ==
    /\ status = "Idle"
    /\ hist.ops < MaxOps
    /\ peer.made
    /\ \E r \in {compute(peer.mem, peer.pc, peer.rb, inp, MaxSteps)} :
           /\ r.ctl # "Step"
           /\ \E m \in PanicMems(r.mem, r.ctl, r.faddr) :
                  peer' = [peer EXCEPT !.mem = m, !.pc = r.pc, !.rb = r.rb]
           /\ status' = IF r.ctl = "Panic" THEN "Aborted" ELSE status
           /\ hist' = [hist EXCEPT !.last = [kind |-> "peer compute", addr |-> 0,
                                             val |-> Len(r.output)],
                                   !.ops = @ + 1]
    /\ UNCHANGED <<prog, amp_chain, host, mem, pc, relative_base, input, output, reason>>

NextPair ==
    \/ \E inp \in Inputs : Call(inp)
    \/ LoopStep
    \/ LoopBreak
    \/ LoopPanic
    \/ \E addr \in HostAddrs, val \in HostVals : HostPoke(addr, val)
    \/ PeerNew
    \/ \E addr \in HostAddrs, val \in HostVals : PeerPoke(addr, val)
    \/ \E inp \in Inputs : PeerCompute(inp)

SpecPair == Init /\ [][NextPair]_vars

(***************************************************************************)
(* eval_with_io of the tests: a new machine, one compute call.             *)
(***************************************************************************)
EvalCall(inp) ==
    /\ hist.ops = 0
    /\ Call(inp)

NextEval ==
    \/ \E inp \in Inputs : EvalCall(inp)
    \/ LoopStep
    \/ LoopBreak
    \/ LoopPanic

(***************************************************************************)
(* Programs that put one instruction word, in every combination of mode    *)
(* digits 0..3, behind an Rbo that moves the relative base to 2:           *)
(*     address  0    1  2     3   4   5   6   7   8   9   10               *)
(*     cell     109  2  word  r1  r2  rd  99  11  22  33  44               *)
(***************************************************************************)
DecodeOpcodes == {1, 2, 3, 4, 5, 6, 7, 8, 9, 99}

DecodeWords ==
    {op + 100 * m1 + 1000 * m2 + 10000 * md :
        op \in DecodeOpcodes, m1 \in 0..3, m2 \in 0..3, md \in 0..3}

DecodeParams == {<<7, 8, 9>>, <<8, 99, 5>>, <<3, 99, 5>>, <<-1, 0, -2>>}

DecodeProgram(w, q) == <<109, 2, w, q[1], q[2], q[3], 99, 11, 22, 33, 44>>

DecodePrograms == {DecodeProgram(w, q) : w \in DecodeWords, q \in DecodeParams}

InitDecode == \E p \in DecodePrograms : Load(p)

SpecDecode == InitDecode /\ [][NextEval]_vars

(***************************************************************************)
(* The fixtures of the tests of day9.rs, run as eval and eval_with_io run  *)
(* them, with the inputs the tests give and a few more; and programs that  *)
(* do arithmetic, comparison and jumps on relative-mode operands.          *)
(***************************************************************************)
Example1 == <<1, 0, 0, 0, 99>>

Example2 == <<2, 3, 0, 3, 99>>

Example3 == <<2, 4, 4, 5, 99, 0>>

Example4 == <<1, 1, 1, 4, 99, 5, 6, 0, 99>>

AddressingMul == <<1002, 4, 3, 4, 33>>

AddressingAdd == <<1101, 100, -1, 4, 0>>

EqWithLoad == <<3, 9, 8, 9, 10, 9, 4, 9, 99, -1, 8>>

LtWithLoad == <<3, 9, 7, 9, 10, 9, 4, 9, 99, -1, 8>>

EqWithImmediate == <<3, 3, 1108, -1, 8, 3, 4, 3, 99>>

LtWithImmediate == <<3, 3, 1107, -1, 8, 3, 4, 3, 99>>

JumpWithLoad == <<3, 12, 6, 12, 15, 1, 13, 14, 13, 4, 13, 99, -1, 0, 1, 9>>

JumpWithImmediate == <<3, 3, 1105, -1, 9, 1101, 0, 0, 12, 4, 12, 99, 1>>

Integration ==
    <<3, 21, 1008, 21, 8, 20, 1005, 20, 22, 107, 8, 21, 20, 1006, 20, 31, 1106, 0, 36, 98, 0,
      0, 1002, 21, 125, 20, 4, 20, 1105, 1, 46, 104, 999, 1105, 1, 46, 1101, 1000, 1, 20, 4,
      20, 1105, 1, 46, 98, 99>>

Quine == <<109, 1, 204, -1, 1001, 100, 1, 100, 1008, 100, 16, 101, 1006, 101, 0, 99>>

RelativeWords == {22201, 22202, 22207, 22208, 2205, 2206, 1205, 1206, 2105, 2106}

RelativePrograms == {DecodeProgram(w, <<7, 8, 9>>) : w \in RelativeWords}

TestPrograms ==
    {Example1, Example2, Example3, Example4, AddressingMul, AddressingAdd,
     EqWithLoad, LtWithLoad, EqWithImmediate, LtWithImmediate,
     JumpWithLoad, JumpWithImmediate, Integration, Quine}
        \cup RelativePrograms \cup Failing

TestInputs == {<<>>, <<8>>, <<42>>, <<-8>>, <<-42>>, <<3>>, <<0>>, <<-7>>, <<7>>, <<9>>}

InitTests == \E p \in TestPrograms : Load(p)

NextTests ==
    \/ \E inp \in TestInputs : EvalCall(inp)
    \/ LoopStepWithin(MaxRun)
    \/ LoopBreakWithin(MaxRun)
    \/ LoopPanicWithin(MaxRun)

SpecTests == InitTests /\ [][NextTests]_vars

(***************************************************************************)
(* The fixtures of test_boost_example2 and test_boost_example3, the first  *)
(* of them also with other factors whose product is beyond 31 bits, and    *)
(* the programs that fail.                                                 *)
(***************************************************************************)
BoostFactors == {34915192, -34915192, 46341, 65536, 2 ^ 30 - 1}

BoostMul(a, b) == <<1102, a, b, 7, 4, 7, 99, 0>>

BoostPut == <<104, ValueOfLimbs(FALSE, OfDecimal(<<1125, 8999, 684, 2624>>)), 99>>

InitBoost ==
    \/ \E a \in BoostFactors, b \in BoostFactors : Load(BoostMul(a, b))
    \/ Load(BoostPut)
    \/ \E p \in Failing : Load(p)

SpecBoost == InitBoost /\ [][NextEval]_vars

(***************************************************************************)
(* What the properties speak of.                                           *)
(***************************************************************************)
Max(a, b) == IF a >= b THEN a ELSE b

\* Every address reads the same value in m1 and in m2.
SameValues(m1, m2) ==
    \A a \in 0..Max(Len(m1), Len(m2)) : PeekVal(m1, a) = PeekVal(m2, a)

\* The memory m with the cell at addr, when there is one, blanked.
Masked(m, addr) == IF addr < Len(m) THEN [m EXCEPT ![addr + 1] = 0] ELSE m

\* The operands of the Output instructions of a trace, in execution order.
PutsOf(tr) ==
    LET puts == SelectSeq(tr, LAMBDA t : t.op = "Put")
    IN  [k \in 1..Len(puts) |-> puts[k].a]

\* The number of Input instructions of a trace that stored a value.
GetsOf(tr) == Len(SelectSeq(tr, LAMBDA t : t.op = "Get"))

\* The instruction word at pc.
Word == PeekVal(mem, pc)

\* An Input instruction is at pc.
AtInput == pc >= 0 /\ Opcode(Word) = 3 /\ Mode1(Word) \in 0..2

\* A halt instruction is at pc.
AtHalt == pc >= 0 /\ Opcode(Word) = 99

Returned == status = "Idle" /\ hist.last.kind = "return"

\* C1: an Input instruction that finds the input exhausted makes compute return
\* NeedInput with pc still at that instruction, the relative base and every memory
\* value as before the attempt, and nothing added to the output.
C1_NeedInputKeepsState ==
    [][(status = "Running" /\ AtInput /\ input = <<>>)
         => /\ status' = "Idle"
            /\ reason' = "NeedInput"
            /\ pc' = pc
            /\ relative_base' = relative_base
            /\ SameValues(mem, mem')
            /\ output' = output]_vars

C1_Witness ==
    /\ Returned
    /\ reason = "NeedInput"
    /\ hist.given # <<>>
    /\ pc > 0
    /\ Len(mem) > Len(prog)

\* C2: suspend and resume is transparent: when the first compute on a new machine,
\* with input I1, returned NeedInput with output O1 and the second, with input I2,
\* returned r with output O2, one compute on a new machine with I1 \o I2 returns r
\* with output O1 \o O2 and ends with the same pc, relative base and memory values.
C2_SuspendResume ==
    (/\ Returned
     /\ Len(hist.calls) = 2
     /\ hist.pokes = 0
     /\ hist.calls[1].reason = "NeedInput")
    => With(compute(prog, 0, 0, hist.calls[1].inp \o hist.calls[2].inp, MaxSteps + MaxSteps),
            LAMBDA r :
                /\ r.ctl = hist.calls[2].reason
                /\ r.output = hist.calls[1].out \o hist.calls[2].out
                /\ r.pc = pc
                /\ r.rb = relative_base
                /\ SameValues(r.mem, mem))

C2_Witness ==
    /\ Returned
    /\ Len(hist.calls) = 2
    /\ hist.pokes = 0
    /\ hist.calls[1].reason = "NeedInput"
    /\ hist.calls[1].inp # <<>>
    /\ hist.calls[1].out # <<>>
    /\ hist.calls[2].reason = "ProgramHalt"
    /\ hist.calls[2].out # <<>>

\* C3: compute returns only at two points: NeedInput only at an Input instruction
\* with every value of the input consumed, ProgramHalt only at a halt instruction;
\* from every other state of the loop the next state is in the loop or aborted.
C3_ReturnPoints ==
    [][status = "Running"
         => /\ status' = "Idle" =>
                  \/ /\ reason' = "NeedInput"
                     /\ AtInput
                     /\ input = <<>>
                     /\ GetsOf(hist.trace) = Len(hist.given)
                  \/ /\ reason' = "ProgramHalt"
                     /\ AtHalt
            /\ ~(AtInput /\ input = <<>>) /\ ~AtHalt => status' \in {"Running", "Aborted"}]_vars

C3_Witness ==
    /\ Returned
    /\ reason = "NeedInput"
    /\ Len(hist.given) = 2
    /\ GetsOf(hist.trace) = 2

\* C4: the output of a compute call is exactly the operands of the Output
\* instructions executed during that call, in execution order: each call starts
\* from an empty output, so nothing of an earlier call's output is in it.
C4_OutputOfThisCall ==
    status \in {"Running", "Idle"} => output = PutsOf(hist.trace)

C4_Witness ==
    /\ Returned
    /\ Len(hist.calls) = 2
    /\ hist.calls[1].reason = "NeedInput"
    /\ hist.calls[1].out # <<>>
    /\ output # <<>>
    /\ output # hist.calls[1].out

\* C5: input is consumed only by Input instructions, in FIFO order: the k-th Input
\* instruction executed in a call stores the k-th value of the call's input at its
\* target address and advances pc by 2; no other instruction consumes a value.
C5_InputFifo ==
    [][status = "Running"
         => IF AtInput /\ input # <<>>
            THEN status' = "Running" =>
                    LET k == GetsOf(hist.trace')
                        d == hist.trace'[Len(hist.trace')].d
                    IN  /\ k = GetsOf(hist.trace) + 1
                        /\ Len(input') = Len(hist.given) - k
                        /\ input' = Tail(input)
                        /\ PeekVal(mem', d) = hist.given[k]
                        /\ pc' = pc + 2
            ELSE input' = input]_vars

C5_Witness ==
    /\ status = "Running"
    /\ hist.last.kind = "step"
    /\ GetsOf(hist.trace) = 2
    /\ hist.trace[Len(hist.trace)].op = "Get"
    /\ hist.given[1] # hist.given[2]

\* A cell whose two low decimal digits are 99.
HaltWord(w) == w >= 0 /\ w % 100 = 99

\* C6: for a program whose cell 0 holds the halt opcode, compute with any input
\* returns (ProgramHalt, empty output) at its first iteration, and peek(0)
\* afterwards is the loaded value of cell 0.
C6_HaltOnly ==
    (HaltWord(prog[1]) /\ hist.pokes = 0)
    => /\ status # "Aborted"
       /\ status = "Running" => hist.trace = <<>>
       /\ \A k \in 1..Len(hist.calls) :
             hist.calls[k].reason = "ProgramHalt" /\ hist.calls[k].out = <<>>
       /\ PeekVal(mem, 0) = prog[1]

C6_Witness ==
    /\ HaltWord(prog[1])
    /\ Len(prog) = 1
    /\ hist.pokes = 0
    /\ Len(hist.calls) = 1
    /\ hist.calls[1].inp # <<>>
    /\ hist.last.kind = "peek"
    /\ hist.last.addr = 0

\* C7: Halted is terminal: after a compute call returned ProgramHalt, every later
\* compute call (the host not having poked in between) returns (ProgramHalt, empty
\* output) at its first iteration, consumes no input and changes neither pc, nor the
\* relative base, nor any memory value.
C7_HaltedIsTerminal ==
    [][(status = "Running" /\ reason = "ProgramHalt" /\ ~hist.dirty)
         => /\ status' = "Idle"
            /\ reason' = "ProgramHalt"
            /\ output' = <<>>
            /\ input' = hist.given
            /\ pc' = pc
            /\ relative_base' = relative_base
            /\ SameValues(mem, mem')]_vars

C7_Witness ==
    /\ Returned
    /\ Len(hist.calls) = 2
    /\ hist.pokes = 0
    /\ hist.calls[1].reason = "ProgramHalt"
    /\ hist.calls[1].out # <<>>
    /\ hist.calls[2].reason = "ProgramHalt"
    /\ hist.calls[2].inp # <<>>

\* C8: after any sequence of peek, poke and compute steps, an address that was never
\* written (by the program load, by a poke or by an executed instruction) reads 0:
\* every address inside the memory, the first address beyond its capacity, and the
\* address of the host's last peek, wherever that was.
C8_UnwrittenReadsZero ==
    status # "Aborted"
    => /\ \A a \in 0..(Len(mem) - 1) :      \* peek(a) is the cell itself here
             mem[a + 1] # 0 => a \in hist.written
       /\ PeekVal(mem, Len(mem)) # 0 => Len(mem) \in hist.written
       /\ (hist.last.kind = "peek" /\ hist.last.addr \notin hist.written)
             => hist.last.val = 0

C8_Witness ==
    /\ hist.last.kind = "peek"
    /\ hist.last.addr >= Len(prog)
    /\ hist.last.addr \notin hist.written
    /\ hist.pokes > 0
    /\ Len(hist.calls) > 0
    /\ \E a \in hist.written : a >= PAGE_SIZE

\* C9: poke(addr, v) followed by peek(addr) returns v, inside the loaded program and
\* beyond the current memory length, where poke first grows the memory.
C9_PokeThenPeek ==
    (status = "Idle" /\ hist.last.kind = "poke")
    => PeekVal(mem, hist.last.addr) = hist.last.val

C9_Witness ==
    /\ hist.last.kind = "poke"
    /\ hist.last.addr >= PAGE_SIZE
    /\ Len(mem) = 2 * PAGE_SIZE
    /\ hist.last.val # 0

\* C10: poke(addr, v) changes only the value at addr: every other address reads
\* after the poke what it read before it (the cells there were keep their values,
\* the cells that growth adds read 0), and pc and the relative base are unchanged.
C10_PokeFrame ==
    [][(status = "Idle" /\ hist.last'.kind = "poke" /\ hist.ops' = hist.ops + 1)
         => /\ Len(mem') >= Len(mem)
            /\ SubSeq(Masked(mem', hist.last'.addr), 1, Len(mem)) = Masked(mem, hist.last'.addr)
            /\ \A a \in Len(mem)..Len(mem') :
                  a # hist.last'.addr => PeekVal(mem', a) = 0
            /\ pc' = pc
            /\ relative_base' = relative_base]_vars

C10_Witness ==
    /\ hist.last.kind = "poke"
    /\ hist.last.addr >= PAGE_SIZE
    /\ Len(mem) = 2 * PAGE_SIZE
    /\ Len(hist.calls) > 0
    /\ \E a \in hist.written : a >= Len(prog) /\ a # hist.last.addr /\ PeekVal(mem, a) # 0

\* C11: peek(addr) has no effect on what can be observed: pc and the relative base
\* are unchanged and every address reads after the peek what it read before it,
\* for an address inside the memory and for one beyond its capacity (where the
\* memory grows by cells that read 0, as they did before they were there).
C11_PeekNoEffect ==
    [][(status = "Idle" /\ hist.last'.kind = "peek" /\ hist.ops' = hist.ops + 1)
         => /\ pc' = pc
            /\ relative_base' = relative_base
            /\ Len(mem') >= Len(mem)
            /\ SubSeq(mem', 1, Len(mem)) = mem
            /\ \A k \in (Len(mem) + 1)..Len(mem') : mem'[k] = 0    \* read 0 before, too
            /\ PeekVal(mem, Len(mem')) = 0
            /\ PeekVal(mem', Len(mem')) = 0
            /\ PeekVal(mem, hist.last'.addr) = hist.last'.val
            /\ PeekVal(mem', hist.last'.addr) = hist.last'.val]_vars

C11_Witness ==
    /\ hist.last.kind = "peek"
    /\ hist.last.addr >= PAGE_SIZE
    /\ Len(mem) = 2 * PAGE_SIZE
    /\ pc > 0
    /\ relative_base # 0
    /\ hist.pokes = 0

\* C12: a new machine starts with pc 0, relative base 0 and the program in its
\* memory, and owns a copy of it: whatever the host does with one machine (poke,
\* compute) leaves the memory, pc and relative base of the other machine made from
\* the same program, and the program vector itself, as they were; so a machine made
\* after the first has run still starts from the program as loaded.
C12_OwnCopy ==
    [][/\ prog' = prog
       /\ (hist.last'.kind = "peer new" /\ hist.ops' = hist.ops + 1)
             => /\ peer'.pc = 0
                /\ peer'.rb = 0
                /\ peer'.mem = prog
                /\ \A a \in 0..(Len(prog) - 1) : PeekVal(peer'.mem, a) = prog[a + 1]
       /\ (hist.last'.kind \in {"peer new", "peer poke", "peer compute"}
               /\ hist.ops' = hist.ops + 1)
             => /\ mem' = mem
                /\ pc' = pc
                /\ relative_base' = relative_base
       /\ hist.last'.kind \notin {"peer new", "peer poke", "peer compute"}
             => peer' = peer]_vars

C12_Witness ==
    /\ peer.made
    /\ hist.last.kind = "peer compute"
    /\ hist.last.val > 0
    /\ peer.pc > 0
    /\ peer.mem # prog
    /\ mem # prog
    /\ pc > 0
    /\ pc # peer.pc

\* The decimal digit of the non-negative number w at the place k (1, 10, 100, ...).
Digit(w, k) == (w \div k) % 10

\* C13: decode splits the word at pc into opcode = word mod 100, first mode = the
\* hundreds digit, second mode = the thousands digit, third mode = the ten-thousands
\* digit, a digit the word does not have giving mode 0.  (Checked on every cell of
\* the memory that holds a non-negative number; of a negative cell the remainder
\* is not positive and names no opcode.)
C13_DecodeSplit ==
    \A k \in (1..Len(prog)) \cap DOMAIN mem :
        LET w == mem[k]
        IN  IF w >= 0
            THEN /\ Opcode(w) = w % 100
                 /\ Mode1(w) = Digit(w, 100)
                 /\ Mode2(w) = Digit(w, 1000)
                 /\ ModeD(w) = Digit(w, 10000)
                 /\ w < 100 => Mode1(w) = 0
                 /\ w < 1000 => Mode2(w) = 0
                 /\ w < 10000 => ModeD(w) = 0
            ELSE Opcode(w) <= 0

C13_Witness ==
    /\ status = "Running"
    /\ pc = 2
    /\ Word = 21002
    /\ ModeD(Word) = 2
    /\ Mode2(Word) = 1
    /\ Mode1(Word) = 0
    /\ Opcode(Word) = 2

\* The opcodes that read their first, and their second, parameter as a value.
ReadsFirst == {1, 2, 4, 5, 6, 7, 8, 9}

ReadsSecond == {1, 2, 5, 6, 7, 8}

\* What a parameter r read in mode am is to yield, by the state before the step.
ValueOf(am, r) ==
    CASE am = 0 -> PeekVal(mem, r)
      [] am = 1 -> r
      [] am = 2 -> PeekVal(mem, relative_base + r)

\* The instruction the step just taken has executed.
Executed == hist.trace[Len(hist.trace)]

\* C14: a parameter read as a value yields mem[r] in position mode (digit 0), r in
\* immediate mode (digit 1) and mem[relative_base + r] in relative mode (digit 2);
\* any other mode digit on a parameter the instruction reads aborts the run.
C14_ValueFetch ==
    [][(status = "Running" /\ pc >= 0 /\ Word >= 0)
         => LET op == Word % 100
                m1 == Digit(Word, 100)
                m2 == Digit(Word, 1000)
                r1 == PeekVal(mem, pc + 1)
                r2 == PeekVal(mem, pc + 2)
            IN  /\ (op \in ReadsFirst /\ m1 \notin 0..2) => status' = "Aborted"
                /\ (op \in ReadsSecond /\ m2 \notin 0..2) => status' = "Aborted"
                /\ (op \in ReadsFirst /\ status' = "Running")
                      => Executed'.a = ValueOf(m1, r1)
                /\ (op \in ReadsSecond /\ status' = "Running")
                      => (IF op \in {5, 6} THEN Executed'.d ELSE Executed'.b)
                            = ValueOf(m2, r2)]_vars

C14_Witness ==
    /\ status = "Running"
    /\ hist.last.kind = "step"
    /\ Len(hist.trace) = 2
    /\ prog[3] = 1201
    /\ prog[4] = 7
    /\ Executed.op = "Add"
    /\ Executed.a = 33
    /\ Executed.b = 8

\* The opcodes that write through their third parameter; opcode 3 writes through
\* its first.
WritesThird == {1, 2, 7, 8}

\* The address a write-target parameter r in mode am is to resolve to.
AddrOf(am, r) ==
    CASE am \in {0, 1} -> r
      [] am = 2        -> relative_base + r

\* The write target of the instruction at pc: the address of its parameter cell,
\* the mode digit of that parameter and the raw value in the cell.
TargetCell == IF Word % 100 = 3 THEN pc + 1 ELSE pc + 3

TargetMode == IF Word % 100 = 3 THEN Digit(Word, 100) ELSE Digit(Word, 10000)

TargetRaw == PeekVal(mem, TargetCell)

WritesAtPc == pc >= 0 /\ Word >= 0 /\ Word % 100 \in WritesThird \cup {3}

\* C15: a write-target parameter with raw value r resolves to the address r when
\* its mode digit is 0 or 1 and to relative_base + r when it is 2, and any other
\* digit aborts (an Input instruction with input at hand and a target address a
\* memory can hold does not); the instruction changes the cell at that address and
\* no other, so the parameter cell keeps its value unless the resolved address is
\* its own.
C15_AddressFetch ==
    [][(status = "Running" /\ WritesAtPc)
         => /\ TargetMode \notin 0..2 => status' = "Aborted"
            /\ (/\ Word % 100 = 3
                /\ input # <<>>
                /\ TargetMode \in 0..2
                /\ AddrOf(TargetMode, TargetRaw) >= 0) => status' = "Running"
            /\ status' = "Running"
                  => /\ Executed'.d = AddrOf(TargetMode, TargetRaw)
                     /\ Len(mem') >= Len(mem)
                     /\ SubSeq(Masked(mem', Executed'.d), 1, Len(mem))
                           = Masked(mem, Executed'.d)
                     /\ \A k \in (Len(mem) + 1)..Len(mem') :
                           k # Executed'.d + 1 => mem'[k] = 0
                     /\ Executed'.d # TargetCell
                           => PeekVal(mem', TargetCell) = TargetRaw]_vars

\* The state after an instruction has overwritten its own write-target parameter:
\* <<109, 2, 1101, 8, 99, 5, ...>> stores 8 + 99 at address 5.
C15_Witness ==
    /\ status = "Running"
    /\ hist.last.kind = "step"
    /\ Len(hist.trace) = 2
    /\ Executed.op = "Add"
    /\ pc = 6
    /\ Executed.d = 5
    /\ prog[6] = 5
    /\ mem[6] = 107

\* C15 as it was stated: the resolved address is r (digit 0 or 1) or
\* relative_base + r (digit 2), and the cell written is never the parameter cell.
C15_NeverParameterCell ==
    [][(status = "Running" /\ WritesAtPc /\ status' = "Running")
         => /\ Executed'.d = AddrOf(TargetMode, TargetRaw)
            /\ Executed'.d # TargetCell]_vars

\* The values of the first and second parameter of the instruction at pc and the
\* address of its third, resolved by the state before the step.
FirstValue == ValueOf(Digit(Word, 100), PeekVal(mem, pc + 1))

SecondValue == ValueOf(Digit(Word, 1000), PeekVal(mem, pc + 2))

ThirdAddr == AddrOf(Digit(Word, 10000), PeekVal(mem, pc + 3))

\* compute has just returned ProgramHalt on the program p.
Halts(p) == prog = p /\ status = "Running" /\ status' = "Idle" /\ reason' = "ProgramHalt"

\* C16: opcode 1 stores a + b and opcode 2 stores a * b at the resolved address d,
\* a and b being the values of the first two parameters as they were before the
\* write, and pc advances by 4.  Of the fixtures, which all halt, [1,0,0,0,99]
\* leaves 2 at address 0, [2,3,0,3,99] leaves 6 at address 3, and [1002,4,3,4,33]
\* and [1101,100,-1,4,0] leave 99 at address 4.
C16_AddMul ==
    [][/\ (/\ status = "Running"
           /\ pc >= 0
           /\ Word >= 0
           /\ Word % 100 \in {1, 2}
           /\ status' = "Running")
             => /\ PeekVal(mem', ThirdAddr) = IF Word % 100 = 1
                                              THEN FirstValue + SecondValue
                                              ELSE FirstValue * SecondValue
                /\ pc' = pc + 4
       /\ (prog \in {Example1, Example2, AddressingMul, AddressingAdd}
               /\ status = "Running" /\ status' # "Running")
             => reason' = "ProgramHalt" /\ status' = "Idle"
       /\ Halts(Example1) => PeekVal(mem', 0) = 2
       /\ Halts(Example2) => PeekVal(mem', 3) = 6
       /\ Halts(AddressingMul) => PeekVal(mem', 4) = 99
       /\ Halts(AddressingAdd) => PeekVal(mem', 4) = 99]_vars

\* After the Mul of [2,3,0,3,99], which overwrites one of its own operands.
C16_Witness ==
    /\ prog = Example2
    /\ status = "Running"
    /\ Len(hist.trace) = 1
    /\ Executed.op = "Mul"
    /\ Executed.a = 3
    /\ Executed.b = 2
    /\ Executed.d = 3
    /\ mem[4] = 6
    /\ pc = 4

\* compute has just returned ProgramHalt on the program p run with the one input
\* value hist.given[1].
HaltsOnOne(p) == Halts(p) /\ Len(hist.given) = 1

\* C17: opcode 7 stores 1 at the resolved address d when a < b and 0 otherwise,
\* opcode 8 stores 1 when a = b and 0 otherwise, the comparison being one of signed
\* numbers, and pc advances by 4.  So the fixture [3,9,8,9,10,9,4,9,99,-1,8] and
\* its immediate-mode form output [1] exactly when their one input is 8 and [0]
\* otherwise, and the opcode-7 forms output [1] exactly when it is less than 8.
C17_Compare ==
    [][/\ (/\ status = "Running"
           /\ pc >= 0
           /\ Word >= 0
           /\ Word % 100 \in {7, 8}
           /\ status' = "Running")
             => /\ PeekVal(mem', ThirdAddr) = IF Word % 100 = 7
                                              THEN (IF FirstValue < SecondValue THEN 1 ELSE 0)
                                              ELSE (IF FirstValue = SecondValue THEN 1 ELSE 0)
                /\ pc' = pc + 4
       /\ (prog \in {EqWithLoad, LtWithLoad, EqWithImmediate, LtWithImmediate}
               /\ Len(hist.given) = 1 /\ status = "Running" /\ status' # "Running")
             => reason' = "ProgramHalt" /\ status' = "Idle"
       /\ \A p \in {EqWithLoad, EqWithImmediate} :
             HaltsOnOne(p) => output' = IF hist.given[1] = 8 THEN <<1>> ELSE <<0>>
       /\ \A p \in {LtWithLoad, LtWithImmediate} :
             HaltsOnOne(p) => output' = IF hist.given[1] < 8 THEN <<1>> ELSE <<0>>]_vars

\* The opcode-7 fixture has answered 1 to a negative input.
C17_Witness ==
    /\ prog = LtWithLoad
    /\ Returned
    /\ reason = "ProgramHalt"
    /\ hist.given = <<-42>>
    /\ output = <<1>>
    /\ mem[10] = 1

\* C18: opcode 5 sets pc to the value b of its second parameter when the value a of
\* its first is not 0, opcode 6 does so when a is 0, and otherwise either advances
\* pc by 3; neither changes a memory value, the relative base or the output.  The
\* jump fixtures, run with one input, output [0] for the input 0 and [1] for any
\* other.
C18_Jumps ==
    [][/\ (/\ status = "Running"
           /\ pc >= 0
           /\ Word >= 0
           /\ Word % 100 \in {5, 6}
           /\ status' = "Running")
             => /\ pc' = IF (Word % 100 = 5) = (FirstValue # 0) THEN SecondValue ELSE pc + 3
                /\ Len(mem') >= Len(mem)
                /\ SubSeq(mem', 1, Len(mem)) = mem
                /\ \A k \in (Len(mem) + 1)..Len(mem') : mem'[k] = 0
                /\ relative_base' = relative_base
                /\ output' = output
                /\ input' = input
       /\ (prog \in {JumpWithLoad, JumpWithImmediate}
               /\ Len(hist.given) = 1 /\ status = "Running" /\ status' # "Running")
             => reason' = "ProgramHalt" /\ status' = "Idle"
       /\ \A p \in {JumpWithLoad, JumpWithImmediate} :
             HaltsOnOne(p) => output' = IF hist.given[1] = 0 THEN <<0>> ELSE <<1>>]_vars

\* Right after the jump-if-false of the position-mode fixture was taken.
C18_Witness ==
    /\ prog = JumpWithLoad
    /\ status = "Running"
    /\ hist.given = <<0>>
    /\ hist.last.kind = "step"
    /\ Executed.op = "Jpf"
    /\ Executed.a = 0
    /\ pc = 9

\* The iterations the quine takes: sixteen rounds of five instructions and the halt.
QuineSteps == 5 * Len(Quine) + 1

\* C19: the quine, run with no input, does not abort, reaches its halt instruction
\* (at its 81st iteration) and returns ProgramHalt with an output equal to the
\* program, cell for cell; its counter and flag are then at the addresses 100 and
\* 101, beyond the loaded program.
C19_Quine ==
    (prog = Quine /\ hist.given = <<>>)
    => /\ status # "Aborted"
       /\ status = "Running" => /\ Len(hist.trace) < QuineSteps
                                /\ Len(output) <= Len(prog)
                                /\ output = SubSeq(prog, 1, Len(output))
       /\ Returned => /\ reason = "ProgramHalt"
                      /\ Len(hist.trace) = QuineSteps
                      /\ output = prog
                      /\ PeekVal(mem, 100) = Len(prog)
                      /\ PeekVal(mem, 101) = 1
                      /\ relative_base = Len(prog)

C19_Witness ==
    /\ prog = Quine
    /\ hist.given = <<>>
    /\ Returned
    /\ reason = "ProgramHalt"
    /\ Len(output) = 16
    /\ output[16] = 99
    /\ output[4] = -1

\* Primes below 2^15 whose product is beyond 2^63: a magnitude below 2^63 is known
\* by its remainders modulo them.
Primes == {9973, 10007, 32717, 32719, 32749}

Abs(n) == IF n < 0 THEN -n ELSE n

\* The Value v is exactly a * b.
IsProduct(v, a, b) ==
    /\ v.neg = ((a < 0) # (b < 0))
    /\ Len(v.mag) <= 5
    /\ BitOf(v.mag, 63) = 0
    /\ \A q \in Primes : DivSmall(v.mag, q).rem = ((Abs(a) % q) * (Abs(b) % q)) % q

\* The program loaded is one of the two fixtures.
IsBoostMul == Len(prog) = 8 /\ prog[1] = 1102

IsBoostPut == Len(prog) = 3 /\ prog[1] = 104

\* C20: the cells of the machine hold 64 bits: [1102,34915192,34915192,7,4,7,99,0]
\* halts with the one output 34915192 * 34915192 = 1219070632396864, a number of 16
\* decimal digits, [104,1125899906842624,99] halts with the one output
\* 1125899906842624, and every product of two factors beyond 31 bits that fits in
\* 63 is output exactly, nothing of it cut off or wrapped around.
C20_WideValues ==
    (IsBoostMul \/ IsBoostPut)
    => /\ status # "Aborted"
       /\ Returned
             => /\ reason = "ProgramHalt"
                /\ Len(output) = 1
                /\ IsBoostMul => IsProduct(output[1], prog[2], prog[3])
                /\ (IsBoostMul /\ Abs(prog[2]) = 34915192 /\ Abs(prog[3]) = 34915192)
                      => Decimal(output[1].mag) = <<1219, 706, 3239, 6864>>
                /\ IsBoostPut
                      => /\ output[1] = prog[2]
                         /\ ~output[1].neg
                         /\ Decimal(output[1].mag) = <<1125, 8999, 684, 2624>>

C20_Witness ==
    /\ Returned
    /\ IsBoostMul
    /\ prog[2] = 34915192
    /\ prog[3] = 34915192
    /\ hist.given = <<>>
    /\ ~output[1].neg
    /\ Decimal(output[1].mag) = <<1219, 706, 3239, 6864>>
    /\ Decimal(mem[8].mag) = <<1219, 706, 3239, 6864>>

\* The opcodes decode knows.
KnownOpcodes == {1, 2, 3, 4, 5, 6, 7, 8, 9, 99}

\* The remainder of the word at pc by 100, the sign of the word kept.
OpcodeAtPc == IF Word >= 0 THEN Word % 100 ELSE -((-Word) % 100)

\* C21: when the opcode of the cell at pc is none of 1..9 and 99, the run aborts:
\* compute returns neither a stop reason nor an output, no memory value changes
\* (the reads decode makes before it looks at the opcode may add cells, which read
\* 0), and nothing is executed afterwards: an aborted machine takes no step.
C21_UnknownOpcodeAborts ==
    [][/\ (status = "Running" /\ pc >= 0 /\ OpcodeAtPc \notin KnownOpcodes)
             => /\ status' = "Aborted"
                /\ reason' = reason
                /\ hist.calls' = hist.calls
                /\ hist.trace' = hist.trace
                /\ pc' = pc
                /\ relative_base' = relative_base
                /\ Len(mem') >= Len(mem)
                /\ SubSeq(mem', 1, Len(mem)) = mem
                /\ \A k \in (Len(mem) + 1)..Len(mem') : mem'[k] = 0
       /\ status # "Aborted"]_vars

C21_Witness ==
    /\ status = "Aborted"
    /\ pc > 0
    /\ OpcodeAtPc \notin KnownOpcodes
    /\ OpcodeAtPc # 0
    /\ output # <<>>
    /\ hist.calls = <<>>
    /\ Len(mem) > Len(prog)

\* The instruction at pc has valid mode digits on the parameters it uses, and one
\* of them resolves, in position or relative mode (a write target also in
\* immediate mode, which addr_fetch takes for position), to a negative address
\* that the instruction goes on to access.
NegativeOperand ==
    /\ pc >= 0
    /\ Word >= 0
    /\ LET op == Word % 100
           m1 == Digit(Word, 100)
           m2 == Digit(Word, 1000)
           r1 == PeekVal(mem, pc + 1)
           r2 == PeekVal(mem, pc + 2)
       IN  /\ op \in ReadsFirst => m1 \in 0..2
           /\ op \in ReadsSecond => m2 \in 0..2
           /\ op \in WritesThird \cup {3} => TargetMode \in 0..2
           /\ \/ op \in ReadsFirst /\ m1 \in {0, 2} /\ (IF m1 = 2 THEN relative_base + r1 ELSE r1) < 0
              \/ op \in ReadsSecond /\ m2 \in {0, 2} /\ (IF m2 = 2 THEN relative_base + r2 ELSE r2) < 0
              \/ op \in WritesThird /\ AddrOf(TargetMode, TargetRaw) < 0
              \/ op = 3 /\ input # <<>> /\ AddrOf(TargetMode, TargetRaw) < 0

\* C22: an operand that resolves to a negative address is fatal: the run aborts,
\* and the memory is neither shrunk nor changed in any value on the way.
C22_NegativeAddressFatal ==
    [][(status = "Running" /\ NegativeOperand)
         => /\ status' = "Aborted"
            /\ Len(mem') >= Len(mem)
            /\ SubSeq(mem', 1, Len(mem)) = mem]_vars

(***************************************************************************)
(* The machine of day7.rs.  Addr = u32 and Value = i32; the memory is the  *)
(* program vector and never grows: peek and poke index it, and an index    *)
(* outside it panics.  A negative address stands for its cast to u32,      *)
(* which is beyond every vector.  There is no relative base.               *)
(***************************************************************************)
I32_MAX == (2 ^ 30 - 1) + 2 ^ 30

I32_MIN == (-I32_MAX) - 1

\* What an expression that may panic comes to: a value, or the panic.
Got(v) == [ok |-> TRUE, val |-> v]

Miss == [ok |-> FALSE, val |-> 0]

\* op1 + op2 on i32.  `checks` tells whether the build has overflow checks: with
\* them a sum out of range panics, without them it wraps.
Add32(a, b, checks) ==
    CASE a > 0 /\ b > 0 /\ a > I32_MAX - b ->
            IF checks THEN Miss ELSE Got((a - I32_MAX - 1) + (b - I32_MAX - 1))
      [] a < 0 /\ b < 0 /\ a < I32_MIN - b ->
            IF checks THEN Miss ELSE Got((a + I32_MAX + 1) + (b + I32_MAX + 1))
      [] OTHER -> Got(a + b)

\* The limbs of the magnitude of the i32 a.
AbsLimbs(a) == IF a >= 0 THEN ToLimbs(a) ELSE AddLimbs(ToLimbs(-(a + 1)), <<1>>, 0)

\* The i32 of sign neg and magnitude x, for a magnitude in the range of i32.
OfLimbs32(neg, x) ==
    LET s == IF neg THEN -1 ELSE 1
    IN  (IF Len(x) >= 1 THEN s * x[1] ELSE 0)
        + (IF Len(x) >= 2 THEN s * x[2] * Base ELSE 0)
        + (IF Len(x) >= 3 THEN s * x[3] * Base * Base ELSE 0)

\* (neg: minus) x is in the range of i32.
Fits32(neg, x) ==
    \/ Len(x) <= 2
    \/ Len(x) = 3 /\ x[3] <= 1
    \/ neg /\ x = <<0, 0, 2>>

\* The i32 whose bit pattern is that of (neg: minus) x.
Wrap32(neg, x) ==
    LET low == LowBits(x, 32)
        u   == IF neg /\ low # <<>> THEN Strip(SubLimbs(Pow2(32), low, 0)) ELSE low
    IN  IF BitOf(u, 31) = 1
        THEN OfLimbs32(TRUE, Strip(SubLimbs(Pow2(32), u, 0)))
        ELSE OfLimbs32(FALSE, u)

\* op1 * op2 on i32, as Add32.
Mul32(a, b, checks) ==
    With(Strip(MulLimbs(AbsLimbs(a), AbsLimbs(b))), LAMBDA x :
        IF Fits32((a < 0) # (b < 0), x) THEN Got(OfLimbs32((a < 0) # (b < 0), x))
        ELSE IF checks THEN Miss
        ELSE Got(Wrap32((a < 0) # (b < 0), x)))

\* self.peek(i)
peek7(m, i) == IF i >= 0 /\ i < Len(m) THEN Got(m[i + 1]) ELSE Miss

\* self.poke(i, val): the memory it leaves, or the panic.
poke7(m, i, v) == IF i >= 0 /\ i < Len(m) THEN Got([m EXCEPT ![i + 1] = v]) ELSE Miss

\* The closure fetch of decode, on the raw parameter r as its read gave it.
fetch7(m, am, r) ==
    IF ~r.ok THEN Miss
    ELSE CASE am = 0 -> peek7(m, r.val)
           [] am = 1 -> r
           [] OTHER  -> Miss

Instr7(op, d, a, b) == [ok |-> TRUE, op |-> op, d |-> d, a |-> a, b |-> b]

NoInstr7 == [ok |-> FALSE, op |-> "None", d |-> 0, a |-> 0, b |-> 0]

\* The arms of decode that take a target and two values, two values, one value.
Decode7DAB(op, rd, a, b) ==
    IF rd.ok /\ a.ok /\ b.ok THEN Instr7(op, rd.val, a.val, b.val) ELSE NoInstr7

Decode7AB(op, a, b) == IF a.ok /\ b.ok THEN Instr7(op, b.val, a.val, 0) ELSE NoInstr7

Decode7A(op, a) == IF a.ok THEN Instr7(op, 0, a.val, 0) ELSE NoInstr7

\* match opcode { ... }: a parameter is read only by the arm that uses it.
Arms7(m, opcode, m1, m2, r1, r2, rd) ==
    CASE opcode = 1  -> Decode7DAB("Add", rd, fetch7(m, m1, r1), fetch7(m, m2, r2))
      [] opcode = 2  -> Decode7DAB("Mul", rd, fetch7(m, m1, r1), fetch7(m, m2, r2))
      [] opcode = 3  -> IF r1.ok THEN Instr7("Get", r1.val, 0, 0) ELSE NoInstr7
      [] opcode = 4  -> Decode7A("Put", fetch7(m, m1, r1))
      [] opcode = 5  -> Decode7AB("Jpt", fetch7(m, m1, r1), fetch7(m, m2, r2))
      [] opcode = 6  -> Decode7AB("Jpf", fetch7(m, m1, r1), fetch7(m, m2, r2))
      [] opcode = 7  -> Decode7DAB("Lt", rd, fetch7(m, m1, r1), fetch7(m, m2, r2))
      [] opcode = 8  -> Decode7DAB("Eq", rd, fetch7(m, m1, r1), fetch7(m, m2, r2))
      [] opcode = 99 -> Instr7("Halt", 0, 0, 0)
      [] OTHER       -> NoInstr7

\* Mutant: the assertion is made by the arms that write through rd only.
decode7_AssertOnWrites(m, p) ==
    With(peek7(m, p), LAMBDA w :
        IF ~w.ok THEN NoInstr7
        ELSE IF RemT(w.val, 100) \in {1, 2, 7, 8} /\ RemT(DivT(w.val, 10000), 10) # 0
        THEN NoInstr7
        ELSE Arms7(m, RemT(w.val, 100),
                   RemT(DivT(w.val, 100), 10), RemT(DivT(w.val, 1000), 10),
                   peek7(m, p + 1), peek7(m, p + 2), peek7(m, p + 3)))

\* self.decode(self.pc): the word is split, assert_eq!(md, 0), then the arm.
decode7(m, p) ==
    With(peek7(m, p), LAMBDA w :
        IF ~w.ok \/ RemT(DivT(w.val, 10000), 10) # 0 THEN NoInstr7
        ELSE Arms7(m, RemT(w.val, 100),
                   RemT(DivT(w.val, 100), 10), RemT(DivT(w.val, 1000), 10),
                   peek7(m, p + 1), peek7(m, p + 2), peek7(m, p + 3)))

\* The state a call is in after an iteration of the loop of compute, and how
\* the iteration ended: "Step", "NeedInput", "ProgramHalt" or "Panic".
After7(m, p, inp, out, ctl) ==
    [mem |-> m, pc |-> p, input |-> inp, output |-> out, ctl |-> ctl]

\* self.poke(d, v); IssOp::Step(len), for a value v that may have panicked.
Store7(c, d, v, len, inp) ==
    IF ~v.ok \/ ~poke7(c.mem, d, v.val).ok
    THEN After7(c.mem, c.pc, inp, c.output, "Panic")
    ELSE After7(poke7(c.mem, d, v.val).val, c.pc + len, inp, c.output, "Step")

\* One iteration of the loop of compute on the call state c = [mem, pc, input, output].
Execute7(c, i, checks) ==
    IF ~i.ok THEN After7(c.mem, c.pc, c.input, c.output, "Panic")
    ELSE CASE i.op = "Add"  -> Store7(c, i.d, Add32(i.a, i.b, checks), 4, c.input)
           [] i.op = "Mul"  -> Store7(c, i.d, Mul32(i.a, i.b, checks), 4, c.input)
           [] i.op = "Get"  ->
                IF c.input # <<>> THEN Store7(c, i.d, Got(Head(c.input)), 2, Tail(c.input))
                ELSE After7(c.mem, c.pc, c.input, c.output, "NeedInput")
           [] i.op = "Put"  -> After7(c.mem, c.pc + 2, c.input, Append(c.output, i.a), "Step")
           [] i.op = "Jpt"  ->
                After7(c.mem, IF i.a # 0 THEN i.d ELSE c.pc + 3, c.input, c.output, "Step")
           [] i.op = "Jpf"  ->
                After7(c.mem, IF i.a = 0 THEN i.d ELSE c.pc + 3, c.input, c.output, "Step")
           [] i.op = "Lt"   -> Store7(c, i.d, Got(Bool(i.a < i.b)), 4, c.input)
           [] i.op = "Eq"   -> Store7(c, i.d, Got(Bool(i.a = i.b)), 4, c.input)
           [] i.op = "Halt" -> After7(c.mem, c.pc, c.input, c.output, "ProgramHalt")

ExecStep7(c, checks) == With(decode7(c.mem, c.pc), LAMBDA i : Execute7(c, i, checks))

\* The iterations a compute call of the amplifier drivers is followed for.
MaxRun7 == 40

\* The loop of compute, followed for at most `fuel` iterations.
RECURSIVE Loop7(_, _, _)
Loop7(c, checks, fuel) ==
    With(ExecStep7(c, checks), LAMBDA r :
        IF r.ctl = "Step" /\ fuel > 1
        THEN Loop7([mem |-> r.mem, pc |-> r.pc, input |-> r.input, output |-> r.output],
                   checks, fuel - 1)
        ELSE r)

\* machine.compute(inp.iter()) on the machine a = [mem, pc].
compute7(a, inp, checks) ==
    Loop7([mem |-> a.mem, pc |-> a.pc, input |-> inp, output |-> <<>>], checks, MaxRun7)

(***************************************************************************)
(* The drivers of day7.rs.  prog is amp_sw, amp_chain the vector of the    *)
(* machines pushed so far, each [mem, pc], and host the locals of the      *)
(* driver: where it is (at), the loop index i, phase_setting, the input    *)
(* vector, stop_reason, the result, whether the build checks overflows,    *)
(* and log, the last five compute calls made: the machine run, the input   *)
(* it was given, and the output and the reason it returned.                *)
(***************************************************************************)
\* test_example_amp1_loopback, test_example_amp2_loopback
Loopback1 ==
    <<3, 26, 1001, 26, -4, 26, 3, 27, 1002, 27, 2, 27, 1, 27, 26, 27, 4, 27,
      1001, 28, -1, 28, 1005, 28, 6, 99, 0, 0, 5>>

Loopback2 ==
    <<3, 52, 1001, 52, -5, 52, 3, 53, 1, 52, 56, 54, 1007, 54, 5, 55, 1005, 55, 26,
      1001, 54, -5, 54, 1105, 1, 12, 1, 53, 54, 53, 1008, 54, 0, 55, 1001, 55, 1, 55,
      2, 53, 55, 53, 4, 53, 1001, 56, -1, 56, 1005, 56, 6, 99, 0, 0, 0, 0, 10>>

\* An amplifier that forwards each signal and halts after its second one when
\* its phase setting is 9; with another phase setting it never halts.
HaltsOnNine ==
    <<3, 30, 3, 31, 4, 31, 1001, 32, 1, 32, 108, 9, 30, 33, 108, 2, 32, 34,
      2, 33, 34, 35, 1005, 35, 28, 1105, 1, 2, 99, 0, 0, 0, 0, 0, 0, 0>>

\* Amplifier programs the drivers fail on: no output, an unknown opcode, and a
\* product beyond i32 (a panic with overflow checks, a wrapped value without).
BadAmps ==
    { <<99>>,
      <<3, 0, 3, 1, 55>>,
      <<3, 11, 3, 12, 1102, 65536, 65536, 13, 4, 13, 99, 0, 0, 0>> }

\* The orders of the five phase settings lo .. lo + 4, as gen_combinations makes them.
PhaseSettings(lo) ==
    {ph \in [1..5 -> lo..(lo + 4)] : \A j, k \in 1..5 : ph[j] = ph[k] => j = k}

HostStart(at, ph, inp, checks) ==
    [at |-> at, i |-> 0, phase_setting |-> ph, input |-> inp, stop_reason |-> "None",
     result |-> 0, checks |-> checks, log |-> <<>>]

\* A driver is about to run on the amplifier program p.
LoadHost(p, h) ==
    /\ prog = p
    /\ mem = New(prog).mem
    /\ pc = New(prog).pc
    /\ relative_base = New(prog).rb
    /\ input = <<>>
    /\ output = <<>>
    /\ status = "Idle"
    /\ reason = "None"
    /\ peer = NoPeer
    /\ amp_chain = <<>>
    /\ host = h
    /\ hist = [written |-> 0..(Len(prog) - 1),
               last    |-> [kind |-> "new", addr |-> 0, val |-> 0],
               trace   |-> <<>>,
               given   |-> <<>>,
               calls   |-> <<>>,
               pokes   |-> 0,
               ops     |-> 0,
               dirty   |-> FALSE]

\* The machine variables of day9.rs, which the drivers of day7.rs leave alone.
Machine9 == <<prog, mem, pc, relative_base, input, output, status, reason, peer, hist>>

\* What the driver does when a compute call or an index panics or does not return.
HostFails(h, r) ==
    [h EXCEPT !.at = IF r.ctl = "Step" THEN "running" ELSE "panic"]

Logged(h, amp, phase, inp, r) ==
    With(Append(h.log, [amp |-> amp, phase |-> phase, input |-> inp,
                        output |-> r.output, reason |-> r.ctl]),
         LAMBDA l : IF Len(l) > 5 THEN Tail(l) ELSE l)

\* Mutant: every machine is initialized with the phase setting followed by 0.
InitInput_Zero(h) == <<h.phase_setting[h.i + 1], 0>>

\* init_input[0] = phase_setting[i]; init_input
InitInput(h) == [h.input EXCEPT ![1] = h.phase_setting[h.i + 1]]

\* eval_amp_chain_loopback, one iteration of the initialization loop: a new
\* machine computes on [phase_setting[i], init_input[1]], its first output
\* becomes init_input[1], and the machine is pushed.  After the fifth, input is
\* [init_result] and the first pass of the feedback loop begins.
LoopbackInitStep ==
    /\ host.at = "init"
    /\ \E r \in {compute7(New(prog), InitInput(host), host.checks)} :
         IF r.ctl \notin {"NeedInput", "ProgramHalt"} \/ r.output = <<>>
         THEN /\ host' = [HostFails(host, r) EXCEPT
                              !.log = Logged(host, host.i, "init", InitInput(host), r)]
              /\ UNCHANGED amp_chain
         ELSE /\ amp_chain' = Append(amp_chain, [mem |-> r.mem, pc |-> r.pc])
              /\ host' = [host EXCEPT
                              !.log = Logged(host, host.i, "init", InitInput(host), r),
                              !.at = IF host.i = 4 THEN "loop" ELSE "init",
                              !.i = IF host.i = 4 THEN 0 ELSE host.i + 1,
                              !.stop_reason = IF host.i = 4 THEN "ProgramHalt" ELSE "None",
                              !.input = IF host.i = 4 THEN <<r.output[1]>>
                                        ELSE [InitInput(host) EXCEPT ![2] = r.output[1]]]
    /\ UNCHANGED Machine9

\* Mutant: the feedback loop runs the machines from the last to the first.
FeedbackAmp_Reverse(h) == 5 - h.i

\* The machine the feedback loop resumes at index i: amp_chain[i].
FeedbackAmp(h) == h.i + 1

\* One iteration of `for i in 0..5` in the feedback loop: amp_chain[i] computes
\* on input, its output becomes input and its reason stop_reason.
LoopbackStep ==
    /\ host.at = "loop"
    /\ host.i < 5
    /\ \E r \in {compute7(amp_chain[FeedbackAmp(host)], host.input, host.checks)} :
         IF r.ctl \notin {"NeedInput", "ProgramHalt"}
         THEN /\ host' = [HostFails(host, r) EXCEPT
                              !.log = Logged(host, FeedbackAmp(host) - 1, "loop", host.input, r)]
              /\ UNCHANGED amp_chain
         ELSE /\ amp_chain' = [amp_chain EXCEPT
                                  ![FeedbackAmp(host)] = [mem |-> r.mem, pc |-> r.pc]]
              /\ host' = [host EXCEPT
                              !.log = Logged(host, FeedbackAmp(host) - 1, "loop", host.input, r),
                              !.i = host.i + 1,
                              !.input = r.output,
                              !.stop_reason = r.ctl]
    /\ UNCHANGED Machine9

\* Mutant: the loop is left as soon as a pass ends, whatever the last reason.
PassBreaks_Always(h) == TRUE

\* if stop_reason == StopReason::ProgramHalt
PassBreaks(h) == h.stop_reason = "ProgramHalt"

\* The end of a pass: break input[0] when the last reason was ProgramHalt,
\* another pass (stop_reason = ProgramHalt again, i = 0) otherwise.
LoopbackPassEnd ==
    /\ host.at = "loop"
    /\ host.i = 5
    /\ host' = IF PassBreaks(host)
               THEN IF host.input = <<>> THEN [host EXCEPT !.at = "panic"]
                    ELSE [host EXCEPT !.at = "done", !.result = host.input[1]]
               ELSE [host EXCEPT !.i = 0, !.stop_reason = "ProgramHalt"]
    /\ UNCHANGED <<Machine9, amp_chain>>

InitLoopback ==
    \E p \in {Loopback1, Loopback2, HaltsOnNine} \cup BadAmps, ph \in PhaseSettings(5), checks \in BOOLEAN :
        LoadHost(p, HostStart("init", ph, <<0, 0>>, checks))

NextLoopback == LoopbackInitStep \/ LoopbackStep \/ LoopbackPassEnd

SpecLoopback == InitLoopback /\ [][NextLoopback]_vars

\* The labels of host.at under eval_amp_chain_loopback.
LoopbackAt == {"init", "loop", "done", "panic", "running"}

\* The two loopback tests, in either build, with a driver that keeps going.
InitLoopbackTests ==
    \E t \in {<<Loopback1, <<9, 8, 7, 6, 5>>>>, <<Loopback2, <<9, 7, 8, 5, 6>>>>},
       checks \in BOOLEAN :
        LoadHost(t[1], HostStart("init", t[2], <<0, 0>>, checks))

SpecLoopbackTests == InitLoopbackTests /\ [][NextLoopback]_vars /\ WF_vars(NextLoopback)

\* C23: in the initialization phase machine i, a new one, computes on two
\* values, its phase setting and then 0 for machine 0, the first output of
\* machine i - 1 for the others; its own first output is what the driver keeps.
C23_InitChain ==
    [][(host.at = "init" /\ host'.at \in {"init", "loop"})
         => LET e == host'.log[Len(host'.log)]
            IN  /\ e.phase = "init"
                /\ e.amp = host.i
                /\ e.input = <<host.phase_setting[host.i + 1],
                               IF host.i = 0 THEN 0 ELSE host.log[Len(host.log)].output[1]>>
                /\ Len(amp_chain') = host.i + 1
                /\ compute7(New(prog), e.input, host.checks).output = e.output
                /\ host'.input[Len(host'.input)] = e.output[1]]_vars

C23_Witness ==
    /\ host.at = "loop"
    /\ host.i = 0
    /\ prog = Loopback1
    /\ Len(host.log) = 5
    /\ \A k \in 1..5 : host.log[k].phase = "init" /\ host.log[k].amp = k - 1
    /\ host.log[2].input[2] # 0
    /\ host.input = <<host.log[5].output[1]>>

\* C23 as stated: every machine is initialized with its phase setting followed by 0.
C23_PhaseThenZero ==
    host.at \in LoopbackAt
        => \A k \in 1..Len(host.log) :
              host.log[k].phase = "init"
                  => host.log[k].input = <<host.phase_setting[host.log[k].amp + 1], 0>>

\* C24: a call of the feedback loop runs the machine after the one run before
\* it, machine 0 after machine 4, to a stop reason; its input is the output
\* of that call before it (the first output of machine 4 after the
\* initialization), one value on the fixtures; no other machine changes.
C24_RoundRobin ==
    [][(host.at = "loop" /\ host.i < 5 /\ host'.at = "loop")
         => LET e == host'.log[Len(host'.log)]
                b == host.log[Len(host.log)]
            IN  /\ e.phase = "loop"
                /\ e.amp = (b.amp + 1) % 5
                /\ e.input = (IF b.phase = "init" THEN <<b.output[1]>> ELSE b.output)
                /\ e.reason \in {"NeedInput", "ProgramHalt"}
                /\ prog \in {Loopback1, Loopback2} => Len(e.input) = 1
                /\ \A j \in 1..5 : j # e.amp + 1 => amp_chain'[j] = amp_chain[j]]_vars

C24_Witness ==
    /\ host.at = "loop"
    /\ prog = Loopback2
    /\ Len(host.log) = 5
    /\ host.log[4].phase = "loop" /\ host.log[4].amp = 4
    /\ host.log[5].phase = "loop" /\ host.log[5].amp = 0
    /\ host.log[5].input = host.log[4].output
    /\ host.log[5].input # <<0>>

\* C25 as stated: when the driver has left the feedback loop, every machine
\* reported ProgramHalt in the last pass.
C25_AllHaltedOnExit ==
    host.at = "done" => \A k \in 1..Len(host.log) : host.log[k].reason = "ProgramHalt"

\* C26: the two loopback fixtures, with the phase settings of their tests, come
\* to an end with the result 139629729 and 18216.
C26_LoopbackFixtures ==
    /\ (prog = Loopback1 /\ host.phase_setting = <<9, 8, 7, 6, 5>>)
          ~> (host.at = "done" /\ host.result = 139629729)
    /\ (prog = Loopback2 /\ host.phase_setting = <<9, 7, 8, 5, 6>>)
          ~> (host.at = "done" /\ host.result = 18216)

C26_Witness ==
    /\ host.at = "done"
    /\ host.result = 18216
    /\ prog = Loopback2
    /\ host.phase_setting = <<9, 7, 8, 5, 6>>
    /\ \A j \in 1..5 : amp_chain[j].mem[amp_chain[j].pc + 1] = 99

(***************************************************************************)
(* eval_amp_chain: five machines, each new and dropped after its call, in  *)
(* a chain without feedback.                                               *)
(***************************************************************************)
\* test_example_amp1, test_example_amp2, test_example_amp3
Amp1 == <<3, 15, 3, 16, 1002, 16, 10, 16, 1, 16, 15, 15, 4, 15, 99, 0, 0>>

Amp2 ==
    <<3, 23, 3, 24, 1002, 24, 10, 24, 1002, 23, -1, 23, 101, 5, 23, 23, 1, 24, 23, 23,
      4, 23, 99, 0, 0>>

Amp3 ==
    <<3, 31, 3, 32, 1002, 32, 10, 32, 1001, 31, -2, 31, 1007, 31, 0, 33, 1002, 33, 7, 33,
      1, 33, 31, 31, 1, 32, 31, 31, 4, 31, 99, 0, 0, 0>>

\* Mutant: the signal comes before the phase setting.
ChainInput_SignalFirst(h) == <<h.input[2], h.phase_setting[h.i + 1]>>

\* input[0] = phase_setting[i]; input
ChainInput(h) == [h.input EXCEPT ![1] = h.phase_setting[h.i + 1]]

\* One iteration of the loop of eval_amp_chain: a new machine computes on
\* [phase_setting[i], input[1]] and its first output becomes input[1]; after
\* the fifth, input[1] is returned.
ChainStep ==
    /\ host.at = "chain"
    /\ \E r \in {compute7(New(prog), ChainInput(host), host.checks)} :
         IF r.ctl \notin {"NeedInput", "ProgramHalt"} \/ r.output = <<>>
         THEN host' = [HostFails(host, r) EXCEPT
                          !.log = Logged(host, host.i, "chain", ChainInput(host), r)]
         ELSE host' = [host EXCEPT
                          !.log = Logged(host, host.i, "chain", ChainInput(host), r),
                          !.at = IF host.i = 4 THEN "chained" ELSE "chain",
                          !.i = host.i + 1,
                          !.stop_reason = r.ctl,
                          !.result = IF host.i = 4 THEN r.output[1] ELSE 0,
                          !.input = [ChainInput(host) EXCEPT ![2] = r.output[1]]]
    /\ UNCHANGED <<Machine9, amp_chain>>

InitChain ==
    \E p \in {Amp1, Amp2, Amp3} \cup BadAmps, ph \in PhaseSettings(0), checks \in BOOLEAN :
        LoadHost(p, HostStart("chain", ph, <<0, 0>>, checks))

NextChain == ChainStep

SpecChain == InitChain /\ [][NextChain]_vars

\* C27: call i of the chain runs a new machine on its phase setting followed
\* by the signal s, which is 0 for the first call and the first output of the
\* call before for the others; the first output of the fifth call is returned:
\* 43210, 54321 and 65210 on the three fixtures with the phase settings of
\* their tests.
C27_Chain ==
    [][(host.at = "chain" /\ host'.at \in {"chain", "chained"})
         => LET e == host'.log[Len(host'.log)]
                s == IF host.i = 0 THEN 0 ELSE host.log[Len(host.log)].output[1]
            IN  /\ e.amp = host.i
                /\ e.input = <<host.phase_setting[host.i + 1], s>>
                /\ compute7(New(prog), e.input, host.checks).output = e.output
                /\ host'.i = host.i + 1
                /\ host'.at = "chained" <=> host.i = 4
                /\ host'.at = "chained" =>
                      /\ host'.result = e.output[1]
                      /\ (prog = Amp1 /\ host.phase_setting = <<4, 3, 2, 1, 0>>)
                            => host'.result = 43210
                      /\ (prog = Amp2 /\ host.phase_setting = <<0, 1, 2, 3, 4>>)
                            => host'.result = 54321
                      /\ (prog = Amp3 /\ host.phase_setting = <<1, 0, 4, 3, 2>>)
                            => host'.result = 65210]_vars

C27_Witness ==
    /\ host.at = "chained"
    /\ prog = Amp3
    /\ host.phase_setting = <<1, 0, 4, 3, 2>>
    /\ host.result = 65210
    /\ Len(host.log) = 5
    /\ host.log[5].input[2] = host.log[4].output[1]

(***************************************************************************)
(* gen_combinations, as part_one and part_two call it.                     *)
(***************************************************************************)
\* Mutant: the element at i is not brought to the end before the pop.
Swap_None(s, j, k) == s

\* input.swap(j, k), on positions counted from 1.
Swap(s, j, k) == [s EXCEPT ![j] = s[k], ![k] = s[j]]

RECURSIVE gen_combinations(_)
RECURSIVE GenLoop(_, _, _)

\* The iterations i, i - 1, .. 0 of `for i in (0..input_len).rev()`, on the
\* input as the iterations before have left it and res_vec as they filled it.
GenLoop(inp, i, res_vec) ==
    IF i < 0 THEN res_vec
    ELSE With(Swap(inp, i + 1, Len(inp)), LAMBDA swapped :
         With(gen_combinations(SubSeq(swapped, 1, Len(swapped) - 1)), LAMBDA combinations :
             GenLoop(swapped, i - 1,
                     res_vec \o [k \in 1..Len(combinations) |->
                                    Append(combinations[k], swapped[Len(swapped)])])))

gen_combinations(inp) ==
    IF Len(inp) = 1 THEN <<inp>> ELSE GenLoop(inp, Len(inp) - 1, <<>>)

\* The longest of the short inputs of gen_combinations.
MaxComb == 4

\* Sequences without a repeated value, over 0..4 up to the length MaxComb, and
\* the two vectors of part_one and part_two.
CombInputs ==
    UNION {{s \in [1..n -> 0..4] : \A j, k \in 1..n : s[j] = s[k] => j = k} : n \in 0..MaxComb}
        \cup {<<0, 1, 2, 3, 4>>, <<5, 6, 7, 8, 9>>}

\* gen_combinations(input), from the call to the return.
GenCombinations ==
    /\ host.at = "comb"
    /\ host' = [host EXCEPT !.at = "combined", !.result = gen_combinations(host.input)]
    /\ UNCHANGED <<Machine9, amp_chain>>

InitComb ==
    \E s \in CombInputs, p \in {Amp1, Loopback1} :
        LoadHost(p, [at |-> "comb", input |-> s, result |-> <<>>])

NextComb == GenCombinations

SpecComb == InitComb /\ [][NextComb]_vars

RECURSIVE Factorial(_)
Factorial(n) == IF n <= 1 THEN 1 ELSE n * Factorial(n - 1)

\* s holds the values of t, each as often as t does.
IsPermutation(s, t) ==
    /\ Len(s) = Len(t)
    /\ \A j \in 1..Len(t) :
          Cardinality({k \in 1..Len(s) : s[k] = t[j]})
              = Cardinality({k \in 1..Len(t) : t[k] = t[j]})

\* C28: for an input of n >= 1 values, no two the same, gen_combinations
\* returns n! sequences, each a permutation of the input, no two the same; for
\* [0, 1] they are [0, 1] and then [1, 0].
C28_Permutations ==
    (host.at = "combined" /\ Len(host.input) >= 1)
        => /\ Len(host.result) = Factorial(Len(host.input))
           /\ \A k \in 1..Len(host.result) : IsPermutation(host.result[k], host.input)
           /\ \A j, k \in 1..Len(host.result) : host.result[j] = host.result[k] => j = k
           /\ host.input = <<0, 1>> => host.result = << <<0, 1>>, <<1, 0>> >>

C28_Witness ==
    /\ host.at = "combined"
    /\ host.input = <<5, 6, 7, 8, 9>>
    /\ Len(host.result) = 120
    /\ host.result[1] = <<5, 6, 7, 8, 9>>
    /\ <<9, 8, 7, 6, 5>> \in {host.result[k] : k \in 1..Len(host.result)}

(***************************************************************************)
(* The interactive driver of day13.rs, part_two, on the machine of         *)
(* day13.rs, which is that of day9.rs: mem, pc and relative_base are iss.  *)
(* host holds the locals of part_two: where it is (at), input, score,      *)
(* screen, the output and stop_reason of the last compute call, the        *)
(* number k of chunks of that output handled so far, the result or the     *)
(* error returned, and, for the properties, the calls made ([input,        *)
(* reason]) and the triples output by all of them.                         *)
(***************************************************************************)
\* Tile::try_from(value)
TileOf(value) ==
    CASE value = 0 -> Got("Empty")
      [] value = 1 -> Got("Wall")
      [] value = 2 -> Got("Block")
      [] value = 3 -> Got("Paddle")
      [] value = 4 -> Got("Ball")
      [] OTHER     -> [ok |-> FALSE, val |-> "InvalidTileId"]

\* usize::try_from(v)
UsizeOf(v) == IF v >= 0 THEN Got(v) ELSE [ok |-> FALSE, val |-> "TryFromIntError"]

\* Screen::new()
NewScreen == [fb |-> <<>>, xball |-> 0, xpaddle |-> 0]

\* match tile { Tile::Ball => self.xball = x, Tile::Paddle => self.xpaddle = x, _ => {} }
Tracked(s, x, tile) ==
    CASE tile = "Ball"   -> [s EXCEPT !.xball = x]
      [] tile = "Paddle" -> [s EXCEPT !.xpaddle = x]
      [] OTHER           -> s

\* fb.resize_with(y + 1, || Vec::new()) when y >= fb.len()
Rows(fb, y) == IF y >= Len(fb) THEN fb \o [k \in 1..(y + 1 - Len(fb)) |-> <<>>] ELSE fb

\* line.resize(x + 1, Tile::Empty) when x >= line.len(); line[x] = tile
Line(line, x, tile) ==
    [(IF x >= Len(line) THEN line \o [k \in 1..(x + 1 - Len(line)) |-> "Empty"] ELSE line)
        EXCEPT ![x + 1] = tile]

\* screen.insert_tile(x, y, tile)
insert_tile(s, x, y, tile) ==
    With(Rows(s.fb, y), LAMBDA fb :
        [Tracked(s, x, tile) EXCEPT !.fb = [fb EXCEPT ![y + 1] = Line(fb[y + 1], x, tile)]])

\* A game of three calls.  The first call shows a paddle at (1, 0) and a ball
\* at (2, 1), takes its input, shows the triple (x, y, t) and asks for input.
\* The second shows (q, 0, j), j the input it was given, and asks again; the
\* third shows (f, 0, j) likewise and halts.
GameFrame(x, y, t, q, f) ==
    <<1, 0, 0, 41,
      104, 1, 104, 0, 104, 3,
      104, 2, 104, 1, 104, 4,
      3, 42,
      104, x, 104, y, 104, t,
      3, 42,
      104, q, 104, 0, 4, 42,
      3, 42,
      104, f, 104, 0, 4, 42,
      99, 0, 0>>

\* Games without a score, with an output that is no sequence of triples (at
\* the halt, and at a request for input), with an unknown opcode, the empty
\* program, a game whose second call puts out one value after a score in the
\* first, and a game whose ball comes to stand over the paddle in the second
\* call and whose score is the input of the third.
GameOthers ==
    { <<1, 0, 0, 11, 104, 0, 104, 0, 104, 1, 99, 0>>,
      <<1, 0, 0, 7, 104, 5, 99, 0>>,
      <<1, 0, 0, 12, 104, 0, 104, 0, 104, 1, 104, 5, 3, 12, 3, 12, 99>>,
      <<1, 0, 0, 5, 55, 0>>,
      <<>>,
      <<1, 0, 0, 20, 104, -1, 104, 0, 104, 7, 3, 20, 3, 20, 104, 5, 99, 0, 0, 0, 0>>,
      <<1, 0, 0, 35, 104, 1, 104, 0, 104, 3, 104, 2, 104, 1, 104, 4, 3, 36, 3, 36,
        104, 1, 104, 1, 104, 4, 3, 36, 104, -1, 104, 0, 4, 36, 99, 0, 0>> }

Games ==
    {GameFrame(x, y, t, q, f) :
         x \in -1..2, y \in -1..1, t \in 0..5, q \in {-1, 0}, f \in {-1, 0}}
        \cup GameOthers

\* part_two before its loop, the poke still to come.
GameHost ==
    [at |-> "start", input |-> 0, score |-> 0, screen |-> NewScreen, output |-> <<>>,
     k |-> 0, stop_reason |-> "None", result |-> 0, err |-> "None",
     calls |-> <<>>, triples |-> <<>>]

\* iss.poke(0, 2)
GameStart ==
    /\ host.at = "start"
    /\ mem' = PokeMem(mem, 0, 2)
    /\ host' = [host EXCEPT !.at = "play"]
    /\ UNCHANGED <<prog, pc, relative_base, input, output, status, reason, peer, amp_chain, hist>>

\* The output as chunks_exact(3) cuts it.
Chunks(out) == [j \in 1..(Len(out) \div 3) |-> SubSeq(out, 3 * j - 2, 3 * j)]

\* Mutant: the length of the output is not tested.
WrongLength_Never(out) == FALSE

\* output.len() % 3 != 0
WrongLength(out) == Len(out) % 3 # 0

\* iss.compute(vec![input].iter()), and the test of the length of its output.
GameCompute ==
    /\ host.at = "play"
    /\ \E r \in {compute(mem, pc, relative_base, <<host.input>>, MaxRun)} :
         /\ mem' \in PanicMems(r.mem, r.ctl, r.faddr)
         /\ pc' = r.pc
         /\ relative_base' = r.rb
         /\ host' = [host EXCEPT
                        !.calls = Append(@, [input |-> <<host.input>>, reason |-> r.ctl]),
                        !.at = CASE r.ctl = "Panic" -> "panic"
                                 [] r.ctl = "Step" -> "running"
                                 [] WrongLength(r.output) -> "error"
                                 [] OTHER -> "chunks",
                        !.err = IF r.ctl \in {"NeedInput", "ProgramHalt"} /\ WrongLength(r.output)
                                THEN "WrongOutputLength" ELSE @,
                        !.stop_reason = r.ctl,
                        !.output = r.output,
                        !.k = 0,
                        !.triples = IF r.ctl \in {"NeedInput", "ProgramHalt"}
                                    THEN @ \o Chunks(r.output) ELSE @]
    /\ UNCHANGED <<prog, input, output, status, reason, peer, amp_chain, hist>>

\* Mutant: the score is set by every triple with x = -1.
IsScore_AnyRow(chunk) == chunk[1] = -1

\* x == -1 && y == 0
IsScore(chunk) == chunk[1] = -1 /\ chunk[2] = 0

\* The body of `for chunk in output.chunks_exact(3)`, on the locals h.
HandleChunk(h, chunk) ==
    IF IsScore(chunk) THEN [h EXCEPT !.score = chunk[3], !.k = @ + 1]
    ELSE IF ~UsizeOf(chunk[1]).ok THEN [h EXCEPT !.at = "error", !.err = UsizeOf(chunk[1]).val]
    ELSE IF ~UsizeOf(chunk[2]).ok THEN [h EXCEPT !.at = "error", !.err = UsizeOf(chunk[2]).val]
    ELSE IF ~TileOf(chunk[3]).ok THEN [h EXCEPT !.at = "error", !.err = TileOf(chunk[3]).val]
    ELSE [h EXCEPT !.screen = insert_tile(@, UsizeOf(chunk[1]).val, UsizeOf(chunk[2]).val,
                                          TileOf(chunk[3]).val),
                   !.k = @ + 1]

\* One iteration of the loop over the chunks.
GameChunk ==
    /\ host.at = "chunks"
    /\ host.k < Len(host.output) \div 3
    /\ host' = HandleChunk(host, Chunks(host.output)[host.k + 1])
    /\ UNCHANGED <<Machine9, amp_chain>>

\* Mutant: the loop is left after the first call.
Leaves_AfterOneCall(h) == TRUE

\* if stop_reason == StopReason::ProgramHalt { break; }
Leaves(h) == h.stop_reason = "ProgramHalt"

\* Mutant: the input goes back to 0 when ball and paddle are in one column.
NextInput_Reset(h) ==
    CASE h.screen.xball < h.screen.xpaddle -> -1
      [] h.screen.xball > h.screen.xpaddle -> 1
      [] OTHER -> 0

\* if screen.xball < screen.xpaddle { input = -1; } else if screen.xball >
\* screen.xpaddle { input = 1; }
NextInput(h) ==
    CASE h.screen.xball < h.screen.xpaddle -> -1
      [] h.screen.xball > h.screen.xpaddle -> 1
      [] OTHER -> h.input

\* After the chunks: the next input, and the break that returns the score.
GameDecide ==
    /\ host.at = "chunks"
    /\ host.k = Len(host.output) \div 3
    /\ host' = [host EXCEPT
                   !.input = NextInput(host),
                   !.at = IF Leaves(host) THEN "returned" ELSE "play",
                   !.result = IF Leaves(host) THEN host.score ELSE @]
    /\ UNCHANGED <<Machine9, amp_chain>>

InitGame == \E p \in Games : LoadHost(p, GameHost)

NextGame == GameStart \/ GameCompute \/ GameChunk \/ GameDecide

SpecGame == InitGame /\ [][NextGame]_vars

\* The payload of the last triple of ts with x = -1 and y = 0, and 0 without one.
RECURSIVE LastScore(_)
LastScore(ts) ==
    IF ts = <<>> THEN 0
    ELSE IF ts[Len(ts)][1] = -1 /\ ts[Len(ts)][2] = 0 THEN ts[Len(ts)][3]
    ELSE LastScore(SubSeq(ts, 1, Len(ts) - 1))

\* C29: the driver goes back to compute after a call that reported NeedInput
\* and returns a score only after one that reported ProgramHalt, every call
\* before it having reported NeedInput; by then the triples of that last call
\* are handled, and the score returned is the payload of the last triple with
\* x = -1 and y = 0 that any call put out, 0 if there was none.
C29_LeavesOnHalt ==
    /\ (host.at = "play" /\ host.calls # <<>>)
          => host.calls[Len(host.calls)].reason = "NeedInput"
    /\ host.at = "returned"
          => /\ host.calls # <<>>
             /\ \A j \in 1..Len(host.calls) :
                   host.calls[j].reason = (IF j = Len(host.calls) THEN "ProgramHalt"
                                           ELSE "NeedInput")
             /\ host.k = Len(host.output) \div 3
             /\ host.result = LastScore(host.triples)

C29_Witness ==
    /\ host.at = "returned"
    /\ Len(host.calls) = 3
    /\ Len(host.triples) = 5
    /\ host.triples[4][1] = 0
    /\ host.triples[5][1] = -1
    /\ host.result = host.triples[5][3]
    /\ host.result = 1

\* The tile of the screen s at (x, y), "None" where the frame buffer has no cell.
TileAt(s, x, y) ==
    IF x >= 0 /\ y >= 0 /\ y < Len(s.fb) /\ x < Len(s.fb[y + 1]) THEN s.fb[y + 1][x + 1]
    ELSE "None"

TileNames == <<"Empty", "Wall", "Block", "Paddle", "Ball">>

\* C30: the triples of a call are handled one by one in the order of the
\* output.  (-1, 0, t) sets the score to t and leaves the screen as it is.  A
\* triple with x >= 0, y >= 0 and t in 0..4 leaves the score, puts tile t at
\* (x, y), changes no cell the screen had elsewhere, and moves the tracked ball
\* to x for t = 4, the tracked paddle to x for t = 3, and neither otherwise.
\* Every other triple ends the driver with an error, score and screen as they
\* were.
C30_Triples ==
    [][(host.at = "chunks" /\ host.k < Len(host.output) \div 3)
         => LET x == host.output[3 * host.k + 1]
                y == host.output[3 * host.k + 2]
                t == host.output[3 * host.k + 3]
            IN  CASE x = -1 /\ y = 0 ->
                        /\ host'.at = "chunks" /\ host'.k = host.k + 1
                        /\ host'.score = t
                        /\ host'.screen = host.screen
                  [] x >= 0 /\ y >= 0 /\ t \in 0..4 ->
                        /\ host'.at = "chunks" /\ host'.k = host.k + 1
                        /\ host'.score = host.score
                        /\ TileAt(host'.screen, x, y) = TileNames[t + 1]
                        /\ \A b \in 0..(Len(host.screen.fb) - 1) :
                              \A a \in 0..(Len(host.screen.fb[b + 1]) - 1) :
                                 <<a, b>> # <<x, y>>
                                    => TileAt(host'.screen, a, b) = TileAt(host.screen, a, b)
                        /\ host'.screen.xball = (IF t = 4 THEN x ELSE host.screen.xball)
                        /\ host'.screen.xpaddle = (IF t = 3 THEN x ELSE host.screen.xpaddle)
                  [] OTHER ->
                        /\ host'.at = "error" /\ host'.k = host.k
                        /\ host'.score = host.score
                        /\ host'.screen = host.screen]_vars

C30_Witness ==
    /\ host.at = "chunks"
    /\ host.k = 3
    /\ Len(host.calls) = 1
    /\ host.output[7] = 1 /\ host.output[8] = 0 /\ host.output[9] = 4
    /\ host.screen.xball = 1 /\ host.screen.xpaddle = 1
    /\ host.screen.fb = << <<"Empty", "Ball">>, <<"Empty", "Empty", "Ball">> >>

\* C30 as stated: every triple other than (-1, 0, t) puts tile t at (x, y).
C30_OtherTripleWrites ==
    [][(host.at = "chunks" /\ host.k < Len(host.output) \div 3
            /\ ~(host.output[3 * host.k + 1] = -1 /\ host.output[3 * host.k + 2] = 0))
         => /\ host'.at = "chunks"
            /\ host'.k = host.k + 1
            /\ host.output[3 * host.k + 3] \in 0..4
            /\ TileAt(host'.screen, host.output[3 * host.k + 1], host.output[3 * host.k + 2])
                  = TileNames[host.output[3 * host.k + 3] + 1]]_vars

\* C31: when a compute call of the driver returns an output whose length is no
\* multiple of 3, the driver stops with the error WrongOutputLength, the score
\* and the screen with its tracked coordinates as they were before the call; from
\* then on the machine is not run.
C31_WrongOutputLength ==
    [][/\ (host.at = "play" /\ host'.stop_reason \in {"NeedInput", "ProgramHalt"}
               /\ Len(host'.output) % 3 # 0)
            => /\ host'.at = "error"
               /\ host'.err = "WrongOutputLength"
               /\ host'.score = host.score
               /\ host'.screen = host.screen
               /\ host'.result = host.result
       /\ (host.at = "error" /\ host.err = "WrongOutputLength")
            => /\ host' = host
               /\ <<mem', pc', relative_base'>> = <<mem, pc, relative_base>>]_vars

C31_Witness ==
    /\ host.at = "error"
    /\ host.err = "WrongOutputLength"
    /\ Len(host.calls) = 2
    /\ host.stop_reason = "ProgramHalt"
    /\ host.output = <<5>>
    /\ host.score = 7

\* C32: every compute call of the driver is given one value.  It is 0 for the
\* first call; for a later call it is -1 when the tracked ball is left of the
\* tracked paddle, 1 when it is right of it, and the value of the call before
\* when they are in one column.  So it is always one of -1, 0, 1.
C32_ControlValue ==
    [][host.at = "play"
         => LET given == host'.calls[Len(host'.calls)].input
            IN  /\ Len(host'.calls) = Len(host.calls) + 1
                /\ Len(given) = 1
                /\ given[1] \in {-1, 0, 1}
                /\ given[1] =
                      (IF host.calls = <<>> THEN 0
                       ELSE IF host.screen.xball < host.screen.xpaddle THEN -1
                       ELSE IF host.screen.xball > host.screen.xpaddle THEN 1
                       ELSE host.calls[Len(host.calls)].input[1])]_vars

C32_Witness ==
    /\ host.at = "returned"
    /\ Len(host.calls) = 3
    /\ host.calls[1].input = <<0>>
    /\ host.calls[2].input = <<1>>
    /\ host.calls[3].input = <<1>>
    /\ host.screen.xball = host.screen.xpaddle
    /\ host.result = 1

\* The memory n reads at every address as m does: m with zero cells after it.
GrownOnly(m, n) ==
    /\ Len(n) >= Len(m)
    /\ SubSeq(n, 1, Len(m)) = m
    /\ \A k \in (Len(m) + 1)..Len(n) : n[k] = 0

\* An instruction of opcode op has just been executed and the loop goes on.
Stepped(op) ==
    /\ status = "Running"
    /\ status' = "Running"
    /\ pc >= 0
    /\ Word >= 0
    /\ Word % 100 = op

\* C33: opcode 9 moves the relative base by the value of its parameter and pc by
\* 2, changes no memory value, and neither the output nor the input; whatever
\* else happens, the relative base stays as it is.
C33_RelativeBase ==
    [][/\ Stepped(9)
            => /\ relative_base' = relative_base + FirstValue
               /\ pc' = pc + 2
               /\ GrownOnly(mem, mem')
               /\ output' = output
               /\ input' = input
       /\ relative_base' # relative_base => Stepped(9)]_vars

\* After the second instruction of [109,1,204,-1,...]: the base was moved, and the
\* Output read through it.
C33_Witness ==
    /\ prog = Quine
    /\ status = "Running"
    /\ Len(hist.trace) = 2
    /\ hist.trace[1].op = "Rbo"
    /\ hist.trace[1].a = 1
    /\ relative_base = 1
    /\ pc = 4
    /\ output = <<109>>

\* The memory n reads at every address but d as m does.
GrownOnlyBut(m, n, d) ==
    /\ Len(n) >= Len(m)
    /\ SubSeq(Masked(n, d), 1, Len(m)) = Masked(m, d)
    /\ \A k \in (Len(m) + 1)..Len(n) : k # d + 1 => n[k] = 0

\* An instruction has just been executed: the loop goes on, or compute returns
\* at a halt or at an Input instruction without input.
Ran ==
    /\ status = "Running"
    /\ status' \in {"Running", "Idle"}
    /\ pc >= 0
    /\ Word >= 0

\* C34: an executed instruction of opcode 1, 2, 7 or 8, and one of opcode 3 that
\* finds input, changes no memory value but the one at its resolved write
\* address; every other executed instruction, and an opcode 3 without input,
\* changes no memory value at all.  The memory may grow by cells that hold 0.
C34_OneCellPerStep ==
    [][Ran => IF Word % 100 \in WritesThird \/ (Word % 100 = 3 /\ input # <<>>)
              THEN /\ status' = "Running"
                   /\ GrownOnlyBut(mem, mem', AddrOf(TargetMode, TargetRaw))
              ELSE /\ Word % 100 \in {3, 4, 5, 6, 9, 99}
                   /\ GrownOnly(mem, mem')]_vars

\* After the Add of [1101,100,-1,4,0], which has turned the cell after it into
\* a halt: that cell alone differs from the program.
C34_Witness ==
    /\ prog = AddressingAdd
    /\ status = "Running"
    /\ Len(hist.trace) = 1
    /\ pc = 4
    /\ mem[5] = 99
    /\ prog[5] = 0
    /\ GrownOnlyBut(prog, mem, 4)

\* The addresses the instruction at pc touches when nothing stops it: its own
\* four cells, the cells its value parameters name in position or relative mode,
\* and its write target.
Touched ==
    LET op == Word % 100
        m1 == Digit(Word, 100)
        m2 == Digit(Word, 1000)
        r1 == PeekVal(mem, pc + 1)
        r2 == PeekVal(mem, pc + 2)
    IN  {pc, pc + 1, pc + 2, pc + 3}
          \cup (IF op \in ReadsFirst /\ m1 \in {0, 2}
                THEN {IF m1 = 2 THEN relative_base + r1 ELSE r1} ELSE {})
          \cup (IF op \in ReadsSecond /\ m2 \in {0, 2}
                THEN {IF m2 = 2 THEN relative_base + r2 ELSE r2} ELSE {})
          \cup (IF op \in WritesThird \cup {3} /\ TargetMode \in 0..2
                THEN {AddrOf(TargetMode, TargetRaw)} ELSE {})

\* The least multiple of the page size above the address a.
PageAbove(a) == (a \div PAGE_SIZE + 1) * PAGE_SIZE

\* C35: a peek, a poke or a loop iteration that meets no negative address never
\* shortens the memory, and when it lengthens it the new length is a multiple of
\* PAGE_SIZE, the page end above an address the operation touched beyond the old
\* length, hence strictly greater than that address.
C35_MemoryGrowth ==
    [][~(hist'.last.kind = "panic" /\ hist'.last.addr < 0)
         => /\ Len(mem') >= Len(mem)
            /\ Len(mem') > Len(mem)
                  => /\ Len(mem') % PAGE_SIZE = 0
                     /\ \E a \in (IF hist'.last.kind \in {"peek", "poke"}
                                  THEN {hist'.last.addr} ELSE Touched) :
                            /\ a >= Len(mem)
                            /\ Len(mem') > a
                            /\ Len(mem') = PageAbove(a)]_vars

\* The second Add of [1101,5,6,1023,1,1023,1024,...] has read cell 1024 of a
\* memory its first Add had grown to 1024 cells: the memory has 2048 cells.
C35_Witness ==
    /\ prog[1] = 1101
    /\ prog[4] = 1023
    /\ hist.last.kind = "step"
    /\ Len(hist.trace) = 2
    /\ Len(mem) = 2 * PAGE_SIZE
    /\ mem[1025] = 11

(***************************************************************************)
(* Two machines made from one program, the second given every compute call *)
(* the first has returned from, in order and with the same input.  The     *)
(* first runs iteration by iteration; the second runs a call at a time and *)
(* may lag any number of calls behind.  host.calls keeps what compute has  *)
(* returned on the second machine.                                         *)
(***************************************************************************)
\* Mutant: the relative base is one cell that both machines use.
PeerCur_SharedBase(inp) ==
    [mem |-> peer.mem, pc |-> peer.pc, rb |-> relative_base, input |-> inp, output |-> <<>>]

\* The second machine at the entry of compute(inp).
PeerCur(inp) ==
    [mem |-> peer.mem, pc |-> peer.pc, rb |-> peer.rb, input |-> inp, output |-> <<>>]

TwinCompute ==
    /\ status = "Idle"
    /\ host.at = "twin"
    /\ Len(host.calls) < Len(hist.calls)
    /\ \E inp \in {hist.calls[Len(host.calls) + 1].inp} :
       \E r \in {Loop(PeerCur(inp), MaxSteps)} :
           /\ \E m \in PanicMems(r.mem, r.ctl, r.faddr) :
                  peer' = [peer EXCEPT !.mem = m, !.pc = r.pc, !.rb = r.rb]
           /\ status' = IF r.ctl = "Panic" THEN "Aborted" ELSE status
           /\ host' = [host EXCEPT !.calls = Append(@, [inp |-> inp, out |-> r.output,
                                                        reason |-> r.ctl])]
    /\ UNCHANGED <<prog, amp_chain, hist, mem, pc, relative_base, input, output, reason>>

\* let mut a = IntcodeISS::new(&p); let mut b = IntcodeISS::new(&p);
InitTwin ==
    \E p \in Programs :
        /\ prog = p
        /\ mem = New(prog).mem
        /\ pc = New(prog).pc
        /\ relative_base = New(prog).rb
        /\ input = <<>>
        /\ output = <<>>
        /\ status = "Idle"
        /\ reason = "None"
        /\ peer = New(prog)
        /\ amp_chain = <<>>
        /\ host = [at |-> "twin", calls |-> <<>>]
        /\ hist = [written |-> 0..(Len(prog) - 1),
                   last    |-> [kind |-> "new", addr |-> 0, val |-> 0],
                   trace   |-> <<>>,
                   given   |-> <<>>,
                   calls   |-> <<>>,
                   pokes   |-> 0,
                   ops     |-> 0,
                   dirty   |-> FALSE]

NextTwin ==
    \/ \E inp \in Inputs : Call(inp)
    \/ LoopStep
    \/ LoopBreak
    \/ LoopPanic
    \/ TwinCompute

SpecTwin == InitTwin /\ [][NextTwin]_vars

Words7 ==
    { 1, 1101, 10001, 11101, 2, 10002, 20002, 3, 103, 903, 10003, 4, 104, 10004,
      5, 1105, 10005, 6, 10006, 7, 1107, 10007, 8, 10008, 99, 10099, 20099,
      55, 10055, -10099, 100099 }

Programs7 ==
    { <<w, 5, 6, 7, 99, 0, 1, 8>> : w \in Words7 }
      \cup { <<103, 5, 10099, 0, 0, 0>>, <<3, 0, 4, 0, 99>> }

Inputs7 == {<<>>, <<8>>}

Cur7 == [mem |-> mem, pc |-> pc, input |-> input, output |-> output]

\* An iteration that ends in IssOp::Step or IssOp::Jump.
Step7 ==
    /\ host.at = "step7"
    /\ status = "Running"
    /\ hist.steps < MaxRun7
    /\ \E r \in {ExecStep7(Cur7, host.checks)} :
           /\ r.ctl = "Step"
           /\ mem' = r.mem
           /\ pc' = r.pc
           /\ input' = r.input
           /\ output' = r.output
    /\ hist' = [hist EXCEPT !.steps = @ + 1]
    /\ UNCHANGED <<prog, relative_base, status, reason, peer, amp_chain, host>>

\* The iteration that breaks out of the loop with a stop reason.
Break7 ==
    /\ host.at = "step7"
    /\ status = "Running"
    /\ hist.steps < MaxRun7
    /\ \E r \in {ExecStep7(Cur7, host.checks)} :
           /\ r.ctl \in {"NeedInput", "ProgramHalt"}
           /\ mem' = r.mem
           /\ pc' = r.pc
           /\ input' = r.input
           /\ output' = r.output
           /\ reason' = r.ctl
    /\ status' = "Idle"
    /\ hist' = [hist EXCEPT !.steps = @ + 1]
    /\ UNCHANGED <<prog, relative_base, peer, amp_chain, host>>

\* The iteration that panics: a failed assertion, an index outside the memory,
\* unimplemented!() or a checked overflow.
Panic7 ==
    /\ host.at = "step7"
    /\ status = "Running"
    /\ hist.steps < MaxRun7
    /\ \E r \in {ExecStep7(Cur7, host.checks)} :
           /\ r.ctl = "Panic"
           /\ mem' = r.mem
           /\ pc' = r.pc
           /\ input' = r.input
           /\ output' = r.output
    /\ status' = "Aborted"
    /\ hist' = [hist EXCEPT !.steps = @ + 1]
    /\ UNCHANGED <<prog, relative_base, reason, peer, amp_chain, host>>

\* IntcodeISS::new(&p) and the entry of compute(inp.iter()).
InitStep7 ==
    \E p \in Programs7, inp \in Inputs7, checks \in BOOLEAN :
        /\ prog = p
        /\ mem = p
        /\ pc = 0
        /\ relative_base = 0
        /\ input = inp
        /\ output = <<>>
        /\ status = "Running"
        /\ reason = "None"
        /\ peer = NoPeer
        /\ amp_chain = <<>>
        /\ host = [at |-> "step7", checks |-> checks]
        /\ hist = [steps |-> 0]

NextStep7 == Step7 \/ Break7 \/ Panic7

SpecStep7 == InitStep7 /\ [][NextStep7]_vars

\* pc is the address of a cell of the memory.
InRange7 == pc >= 0 /\ pc < Len(mem)

\* The ten-thousands digit of the word w.
TenThousands(w) == (Abs(w) \div 10000) % 10

\* C37: an iteration of the day7 machine on a word whose ten-thousands digit is
\* not 0 panics whatever its opcode, leaving memory and output as they were, so
\* an iteration that does not panic has found the digit 0; an opcode 3 that goes
\* on writes the input value at the raw first parameter whatever its hundreds
\* digit, and any other iteration that changes the memory has opcode 1, 2, 7 or
\* 8 and changes the cell its raw third parameter names and no other.
C37_TargetDigit ==
    [][(host.at = "step7" /\ status = "Running")
         => /\ status' # "Aborted" => (InRange7 /\ TenThousands(mem[pc + 1]) = 0)
            /\ (InRange7 /\ TenThousands(mem[pc + 1]) # 0)
                  => (status' = "Aborted" /\ mem' = mem /\ output' = output)
            /\ (status' = "Running" /\ InRange7 /\ mem[pc + 1] % 100 = 3)
                  => /\ input # <<>>
                     /\ pc + 1 < Len(mem)
                     /\ mem' = [mem EXCEPT ![mem[pc + 2] + 1] = Head(input)]
                     /\ pc' = pc + 2
            /\ (status' = "Running" /\ mem' # mem /\ mem[pc + 1] % 100 # 3)
                  => /\ mem[pc + 1] % 100 \in {1, 2, 7, 8}
                     /\ pc + 3 < Len(mem)
                     /\ \A k \in 1..Len(mem) : k # mem[pc + 4] + 1 => mem'[k] = mem[k]]_vars

\* [103,5,10099,...] with the input 8: the Get flagged immediate has written 8
\* to cell 5, and the halt word with a ten-thousands digit has panicked.
C37_Witness ==
    /\ host.at = "step7"
    /\ prog = <<103, 5, 10099, 0, 0, 0>>
    /\ status = "Aborted"
    /\ pc = 2
    /\ mem[6] = 8
    /\ hist.steps = 2

(***************************************************************************)
(* The machine of day2.rs and of d02/src/main.rs (the same text): a memory *)
(* of 1024 u32 cells that never grows, opcodes 1, 2 and 99.  peek and poke *)
(* index the array, and an index beyond it panics.  hist keeps the number  *)
(* of iterations made and, of a panic, its kind and the index that failed. *)
(* A cell value of 2^31 or more is beyond the integers of the model: an    *)
(* iteration that would store one ends as "Wide" and is not followed.      *)
(***************************************************************************)
MemCells == 1024

MaxRun2 == 260      \* loop iterations of the compute call of the two-opcode machine

peek2(m, i) == IF i < MemCells THEN Got(m[i + 1]) ELSE Miss

poke2(m, i, v) == IF i < MemCells THEN Got([m EXCEPT ![i + 1] = v]) ELSE Miss

\* The state after an iteration and how it ended: "Step", "Halt", "Panic"
\* (fault "index" at faddr, or "unimplemented") or "Wide".
After2(m, p, ctl, fault, fa) ==
    [mem |-> m, pc |-> p, ctl |-> ctl, fault |-> fault, faddr |-> fa]

IndexPanic2(c, i) == After2(c.mem, c.pc, "Panic", "index", i)

\* a + b and a * b stay below 2^31.
SumFits(a, b) == a <= I32_MAX - b

ProductFits(a, b) == a = 0 \/ b <= I32_MAX \div a

\* self.poke(rd, self.peek(r1) + self.peek(r2)), and the same with `*`.
Arith2(c, op, r1, r2, rd) ==
    With(peek2(c.mem, r1), LAMBDA a :
    With(peek2(c.mem, r2), LAMBDA b :
        IF ~a.ok THEN IndexPanic2(c, r1)
        ELSE IF ~b.ok THEN IndexPanic2(c, r2)
        ELSE IF ~(IF op = 1 THEN SumFits(a.val, b.val) ELSE ProductFits(a.val, b.val))
        THEN After2(c.mem, c.pc, "Wide", "none", 0)
        ELSE IF rd >= MemCells THEN IndexPanic2(c, rd)
        ELSE After2(poke2(c.mem, rd, IF op = 1 THEN a.val + b.val ELSE a.val * b.val).val,
                    c.pc + 4, "Step", "none", 0)))

\* match self.peek(self.pc) { ... } with the three parameters already read.
Arms2(c, r1, r2, rd) ==
    With(peek2(c.mem, c.pc), LAMBDA w :
        IF ~w.ok THEN IndexPanic2(c, c.pc)
        ELSE IF w.val \in {1, 2} THEN Arith2(c, w.val, r1, r2, rd)
        ELSE IF w.val = 99 THEN After2(c.mem, c.pc, "Halt", "none", 0)
        ELSE After2(c.mem, c.pc, "Panic", "unimplemented", 0))

\* Mutant: the opcode is examined first and the parameters are read by the
\* arms that use them.
ExecStep2_OpcodeFirst(c) ==
    With(peek2(c.mem, c.pc), LAMBDA w :
        IF ~w.ok THEN IndexPanic2(c, c.pc)
        ELSE IF w.val = 99 THEN After2(c.mem, c.pc, "Halt", "none", 0)
        ELSE IF w.val \notin {1, 2} THEN After2(c.mem, c.pc, "Panic", "unimplemented", 0)
        ELSE IF ~peek2(c.mem, c.pc + 1).ok THEN IndexPanic2(c, c.pc + 1)
        ELSE IF ~peek2(c.mem, c.pc + 2).ok THEN IndexPanic2(c, c.pc + 2)
        ELSE IF ~peek2(c.mem, c.pc + 3).ok THEN IndexPanic2(c, c.pc + 3)
        ELSE Arith2(c, w.val, peek2(c.mem, c.pc + 1).val, peek2(c.mem, c.pc + 2).val,
                    peek2(c.mem, c.pc + 3).val))

\* One iteration of the loop of compute on c = [mem, pc]: r1, r2 and rd are
\* read, in this order, before the match.
ExecStep2(c) ==
    With(peek2(c.mem, c.pc + 1), LAMBDA r1 :
    With(peek2(c.mem, c.pc + 2), LAMBDA r2 :
    With(peek2(c.mem, c.pc + 3), LAMBDA rd :
        IF ~r1.ok THEN IndexPanic2(c, c.pc + 1)
        ELSE IF ~r2.ok THEN IndexPanic2(c, c.pc + 2)
        ELSE IF ~rd.ok THEN IndexPanic2(c, c.pc + 3)
        ELSE Arms2(c, r1.val, r2.val, rd.val))))

\* The programs: the four examples of the tests, programs that fail, and two
\* that fill the memory: 256 additions, and 255 additions with a halt at 1020.
AddsAll == [i \in 1..MemCells |-> IF i % 4 = 1 THEN 1 ELSE IF i % 4 = 0 THEN 3 ELSE 0]

HaltAtEnd == [AddsAll EXCEPT ![MemCells - 3] = 99]

Programs2 ==
    { <<1, 0, 0, 0, 99>>, <<2, 3, 0, 3, 99>>, <<2, 4, 4, 5, 99, 0>>,
      <<1, 1, 1, 4, 99, 5, 6, 0, 99>>,
      <<3, 0, 0, 0, 99>>, <<1, 2000, 0, 0, 99>>, <<1, 0, 0, 5000, 99>>, <<99>>,
      AddsAll, HaltAtEnd }

\* iss.poke(1, noun); iss.poke(2, verb) of main; the tests poke nothing.
NounVerbs == {<<>>, <<12, 2>>, <<0, 0>>}

\* IntcodeISS::new() and load_program(&p): the program over 1024 zeros.
Loaded2(p) == p \o Zeros(MemCells - Len(p))

Patched2(m, nv) == IF nv = <<>> THEN m ELSE [m EXCEPT ![2] = nv[1], ![3] = nv[2]]

InitDay2 ==
    \E p \in Programs2, nv \in NounVerbs :
        /\ prog = p
        /\ mem = Patched2(Loaded2(p), nv)
        /\ pc = 0
        /\ relative_base = 0
        /\ input = <<>>
        /\ output = <<>>
        /\ status = "Running"
        /\ reason = "None"
        /\ peer = NoPeer
        /\ amp_chain = <<>>
        /\ host = [at |-> "day2"]
        /\ hist = [steps |-> 0, fault |-> "none", faddr |-> 0]

\* IssOp::Step(len) => self.pc += len
Step2 ==
    /\ host.at = "day2"
    /\ status = "Running"
    /\ hist.steps < MaxRun2
    /\ \E r \in {ExecStep2([mem |-> mem, pc |-> pc])} :
           /\ r.ctl = "Step"
           /\ mem' = r.mem
           /\ pc' = r.pc
    /\ hist' = [hist EXCEPT !.steps = @ + 1]
    /\ UNCHANGED <<prog, relative_base, input, output, status, reason, peer, amp_chain, host>>

\* IssOp::Halt => break
Halt2 ==
    /\ host.at = "day2"
    /\ status = "Running"
    /\ hist.steps < MaxRun2
    /\ \E r \in {ExecStep2([mem |-> mem, pc |-> pc])} :
           /\ r.ctl = "Halt"
           /\ mem' = r.mem
           /\ pc' = r.pc
    /\ status' = "Idle"
    /\ hist' = [hist EXCEPT !.steps = @ + 1]
    /\ UNCHANGED <<prog, relative_base, input, output, reason, peer, amp_chain, host>>

\* An index beyond the array, or unimplemented!().
Panic2 ==
    /\ host.at = "day2"
    /\ status = "Running"
    /\ hist.steps < MaxRun2
    /\ \E r \in {ExecStep2([mem |-> mem, pc |-> pc])} :
           /\ r.ctl = "Panic"
           /\ mem' = r.mem
           /\ pc' = r.pc
           /\ hist' = [hist EXCEPT !.steps = @ + 1, !.fault = r.fault, !.faddr = r.faddr]
    /\ status' = "Aborted"
    /\ UNCHANGED <<prog, relative_base, input, output, reason, peer, amp_chain, host>>

NextDay2 == Step2 \/ Halt2 \/ Panic2

SpecDay2 == InitDay2 /\ [][NextDay2]_vars

====
